---- MODULE Spec2Model ----
(***************************************************************************)
(* NexusCoach dialogue-turn pipeline: the live session store               *)
(* (app/store.py), the turn and session-end handlers (app/main.py), the    *)
(* reply cascade (app/strategy.py, app/llm.py) and the durable log         *)
(* (app/db.py).                                                            *)
(***************************************************************************)
EXTENDS Integers, Sequences, FiniteSets, TLC

\* ------------------------------------------------------------------ bounds
MaxRequests == 3
MaxAppends == 4
MAX_HISTORY == 2

\* ------------------------------------------------------------ value domain
\* Python None for string-valued keys, for gold and for the timestamp.
None == "None"
NoGold == 0 - 1
NoTime == 0
NoEnemyItem == [champion |-> None, item |-> None]

\* Python truthiness of a string-or-None value (if session.state.get(k):).
Truthy(v) == v \notin {None, ""}

SessionIds == {"s1", "s2"}

Keys ==
  {"champion", "lane", "enemy", "game_phase", "status", "timestamp", "gold",
   "enemies", "self_items", "self_building", "last_self_item",
   "enemy_items", "enemy_building", "last_enemy_item",
   "last_user_text", "last_intent", "last_reply"}

\* state.get(k) of a key that was never written.
AbsentState ==
  [champion |-> None, lane |-> None, enemy |-> None,
   game_phase |-> None, status |-> None, timestamp |-> NoTime,
   gold |-> NoGold, enemies |-> << >>, self_items |-> << >>,
   self_building |-> None, last_self_item |-> None,
   enemy_items |-> << >>, enemy_building |-> << >>,
   last_enemy_item |-> NoEnemyItem,
   last_user_text |-> None, last_intent |-> None, last_reply |-> None]

\* A merge that replaces the state: a key the updates do not carry falls back
\* to its default.
DictReplace(state, updates) ==
  [k \in Keys |-> IF k \in DOMAIN updates THEN updates[k] ELSE AbsentState[k]]

\* dict.update: the keys of updates overwrite, every other key is kept.
DictUpdate(state, updates) ==
  [k \in Keys |-> IF k \in DOMAIN updates THEN updates[k] ELSE state[k]]

\* updates.pop(key, None)
Pop(updates, key) == [k \in DOMAIN updates \ {key} |-> updates[k]]

EmptyDict == << >>

SeqRange(s) == {s[i] : i \in 1..Len(s)}


\* ------------------------------------------------------------- app/nlu.py
\* What nlu.infer_intent, nlu.extract_state_hints and nlu.extract_item_hints
\* return for a concrete utterance (text is the utterance as received; blank
\* says whether text.strip() is empty).
NoItemHints == [kind |-> "none", champion |-> None, item |-> None, status |-> None]
SelfItem(item, status) ==
  [kind |-> "self_item", champion |-> None, item |-> item, status |-> status]
EnemyItem(champion, item, status) ==
  [kind |-> "enemy_item", champion |-> champion, item |-> item, status |-> status]

Utterance(text, blank, intent, hints, items) ==
  [text |-> text, blank |-> blank, intent |-> intent, hints |-> hints, items |-> items]

U_blank == Utterance("   ", TRUE, "general", EmptyDict, NoItemHints)
U_yasuo == Utterance("estou de yasuo", FALSE, "general", ("champion" :> "yasuo"), NoItemHints)
U_zed == Utterance("to de zed no top", FALSE, "general",
                   ("champion" :> "zed") @@ ("lane" :> "top"), NoItemHints)
U_item == Utterance("qual item", FALSE, "build", EmptyDict, NoItemHints)
U_agora == Utterance("e agora", FALSE, "follow_up", EmptyDict, NoItemHints)
U_oi == Utterance("oi", FALSE, "general", EmptyDict, NoItemHints)
U_espada == Utterance("to com espada", FALSE, "general", EmptyDict, SelfItem("espada", "has"))
U_escudo == Utterance("to com escudo", FALSE, "general", EmptyDict, SelfItem("escudo", "has"))
U_fazendo == Utterance("fazendo espada", FALSE, "general", EmptyDict,
                       SelfItem("espada", "building"))

U_enemy == Utterance("zed\\stem\\sespada", FALSE, "general",
                     ("enemies" :> << [kind |-> "dict", champion |-> "zed",
                                       status |-> "even", is_laner |-> FALSE] >>)
                     @@ ("enemy" :> "zed"),
                     EnemyItem("zed", "espada", "has"))

U_enemy_fazendo == Utterance("zed\\sfazendo\\sespada", FALSE, "general",
                             ("enemies" :> << [kind |-> "dict", champion |-> "zed",
                                               status |-> "even", is_laner |-> FALSE] >>)
                             @@ ("enemy" :> "zed"),
                             EnemyItem("zed", "espada", "building"))
U_ahri_fazendo == Utterance("ahri\\sfazendo\\sescudo", FALSE, "general",
                            ("enemies" :> << [kind |-> "dict", champion |-> "ahri",
                                              status |-> "even", is_laner |-> FALSE] >>)
                            @@ ("enemy" :> "ahri"),
                            EnemyItem("ahri", "escudo", "building"))
U_fazendo_escudo == Utterance("fazendo escudo", FALSE, "general", EmptyDict,
                              SelfItem("escudo", "building"))
U_frente == Utterance("to na frente", FALSE, "status", ("status" :> "ahead"), NoItemHints)

infer_intent(u) == u.intent
extract_state_hints(u) == u.hints
extract_item_hints(u) == u.items

\* ------------------------------------------------------------ app/main.py
\* list.append(item) guarded by "status == has" alone.
AppendIfHas_unchecked(list, item, status) ==
  IF status = "has" THEN Append(list, item) ELSE list

\* list.append(item) guarded by "status == has and item not in list".
AppendIfHas(list, item, status) ==
  IF status = "has" /\ item \notin SeqRange(list) THEN Append(list, item) ELSE list

\* dict(d); d[k] = v
DictSet(d, k, v) == [x \in DOMAIN d \cup {k} |-> IF x = k THEN v ELSE d[x]]

\* dict.get(k, []) on a per-champion map.
ListOf(d, k) == IF k \in DOMAIN d THEN d[k] ELSE << >>

_merge_item_hints(state, item_hints) ==
  LET item == item_hints.item
      champion == item_hints.champion
      status == item_hints.status
  IN  IF item_hints.kind = "self_item" /\ Truthy(item)
      THEN ("self_items" :> AppendIfHas(state.self_items, item, status))
           @@ (IF status = "building" THEN ("self_building" :> item) ELSE EmptyDict)
           @@ ("last_self_item" :> item)
      ELSE IF item_hints.kind = "enemy_item" /\ Truthy(champion) /\ Truthy(item)
      THEN ("enemy_items" :>
              DictSet(state.enemy_items, champion,
                      AppendIfHas(ListOf(state.enemy_items, champion), item, status)))
           @@ (IF status = "building"
               THEN ("enemy_building" :> DictSet(state.enemy_building, champion, item))
               ELSE EmptyDict)
           @@ ("last_enemy_item" :> [champion |-> champion, item |-> item])
      ELSE EmptyDict


\* ------------------------------------------------------------- app/llm.py
\* An entry of state["enemies"]: a dict as nlu.extract_champions builds it, or
\* (from a client_state_hint, which is merged unvalidated) a bare string.
EnemyDict(champion, status, is_laner) ==
  [kind |-> "dict", champion |-> champion, status |-> status, is_laner |-> is_laner]
EnemyStr(name) ==
  [kind |-> "str", champion |-> name, status |-> None, is_laner |-> FALSE]

\* _build_prompt runs "for e in enemies: if e.get(...)": e.get raises
\* AttributeError on an entry that is not a dict.
_build_prompt_raises(state) ==
  \E i \in 1..Len(state.enemies) : state.enemies[i].kind # "dict"

\* What the provider call does: raises, answers no text, or answers text.
ProviderOutcomes == {"exception", "empty", "text"}

Raised == [raised |-> TRUE, text |-> None]
Returned(text) == [raised |-> FALSE, text |-> text]

llm_generate_reply(llm_enabled, state, provider) ==
  IF ~llm_enabled THEN Returned(None)
  ELSE IF _build_prompt_raises(state) THEN Raised
  ELSE IF provider = "exception" THEN Returned(None)
  ELSE IF provider = "empty" THEN Returned(None)
  ELSE Returned("llm_text")

\* -------------------------------------------------------- app/strategy.py
\* msg(locale, key, ...): the reply is named by its template key.
msg(key) == key

\* The cascade with the item replies tried before the intent templates.
Cascade_items_first(state, intent, advice) ==
  IF /\ state.last_enemy_item # NoEnemyItem
     /\ intent \in {"build", "general"}
     /\ Truthy(state.last_enemy_item.champion)
     /\ Truthy(state.last_enemy_item.item)
  THEN msg("enemy_item")
  ELSE IF Truthy(state.last_self_item) /\ intent \in {"build", "general"}
       THEN msg("self_item")
  ELSE IF intent = "build" THEN msg("build_defensive")
  ELSE IF intent = "all_in"
       THEN (IF state.game_phase = "early" THEN msg("all_in_early")
             ELSE msg("all_in_advantage"))
  ELSE IF intent = "objective" THEN msg("objective")
  ELSE IF intent = "macro" THEN msg("macro")
  ELSE IF intent = "follow_up" /\ Truthy(state.last_reply) THEN msg("follow_up")
  ELSE IF advice # << >> THEN advice[1]
  ELSE IF Truthy(state.champion) /\ Truthy(state.enemy) /\ Truthy(state.lane)
       THEN msg("matchup")
  ELSE IF Truthy(state.last_reply) THEN msg("continue_strategy")
  ELSE msg("need_context")

\* The cascade with the follow_up template not guarded by "and last_reply".
Cascade_follow_up_unguarded(state, intent, advice) ==
  IF intent = "build" THEN msg("build_defensive")
  ELSE IF intent = "all_in"
       THEN (IF state.game_phase = "early" THEN msg("all_in_early")
             ELSE msg("all_in_advantage"))
  ELSE IF intent = "objective" THEN msg("objective")
  ELSE IF intent = "macro" THEN msg("macro")
  ELSE IF intent = "follow_up" THEN msg("follow_up")
  ELSE IF /\ state.last_enemy_item # NoEnemyItem
          /\ intent \in {"build", "general"}
          /\ Truthy(state.last_enemy_item.champion)
          /\ Truthy(state.last_enemy_item.item)
       THEN msg("enemy_item")
  ELSE IF Truthy(state.last_self_item) /\ intent \in {"build", "general"}
       THEN msg("self_item")
  ELSE IF advice # << >> THEN advice[1]
  ELSE IF Truthy(state.champion) /\ Truthy(state.enemy) /\ Truthy(state.lane)
       THEN msg("matchup")
  ELSE IF Truthy(state.last_reply) THEN msg("continue_strategy")
  ELSE msg("need_context")

\* The cascade with the top advice tried before the item replies.
Cascade_advice_first(state, intent, advice) ==
  IF intent = "build" THEN msg("build_defensive")
  ELSE IF intent = "all_in"
       THEN (IF state.game_phase = "early" THEN msg("all_in_early")
             ELSE msg("all_in_advantage"))
  ELSE IF intent = "objective" THEN msg("objective")
  ELSE IF intent = "macro" THEN msg("macro")
  ELSE IF intent = "follow_up" /\ Truthy(state.last_reply) THEN msg("follow_up")
  ELSE IF advice # << >> THEN advice[1]
  ELSE IF /\ state.last_enemy_item # NoEnemyItem
          /\ intent \in {"build", "general"}
          /\ Truthy(state.last_enemy_item.champion)
          /\ Truthy(state.last_enemy_item.item)
       THEN msg("enemy_item")
  ELSE IF Truthy(state.last_self_item) /\ intent \in {"build", "general"}
       THEN msg("self_item")
  ELSE IF Truthy(state.champion) /\ Truthy(state.enemy) /\ Truthy(state.lane)
       THEN msg("matchup")
  ELSE IF Truthy(state.last_reply) THEN msg("continue_strategy")
  ELSE msg("need_context")

\* The deterministic cascade of strategy.generate_reply below the llm call.
Cascade(state, intent, advice) ==
  IF intent = "build" THEN msg("build_defensive")
  ELSE IF intent = "all_in"
       THEN (IF state.game_phase = "early" THEN msg("all_in_early")
             ELSE msg("all_in_advantage"))
  ELSE IF intent = "objective" THEN msg("objective")
  ELSE IF intent = "macro" THEN msg("macro")
  ELSE IF intent = "follow_up" /\ Truthy(state.last_reply) THEN msg("follow_up")
  ELSE IF /\ state.last_enemy_item # NoEnemyItem
          /\ intent \in {"build", "general"}
          /\ Truthy(state.last_enemy_item.champion)
          /\ Truthy(state.last_enemy_item.item)
       THEN msg("enemy_item")
  ELSE IF Truthy(state.last_self_item) /\ intent \in {"build", "general"}
       THEN msg("self_item")
  ELSE IF advice # << >> THEN advice[1]
  ELSE IF Truthy(state.champion) /\ Truthy(state.enemy) /\ Truthy(state.lane)
       THEN msg("matchup")
  ELSE IF Truthy(state.last_reply) THEN msg("continue_strategy")
  ELSE msg("need_context")

generate_reply(llm_enabled, state, intent, advice, provider) ==
  LET llm_reply == llm_generate_reply(llm_enabled, state, provider)
  IN  IF llm_reply.raised THEN Raised
      ELSE IF Truthy(llm_reply.text) THEN Returned(llm_reply.text)
      ELSE Returned(Cascade(state, intent, advice))


\* ----------------------------------------------------------- app/store.py
\* list[-n:] of Python: the last n entries, and the whole list when n = 0.
PySliceLast(list, n) ==
  IF n = 0 \/ Len(list) <= n THEN list
  ELSE SubSeq(list, Len(list) - n + 1, Len(list))

Session(state, locale, history) ==
  [state |-> state, locale |-> locale, history |-> history]

\* The live store is a map session_id -> Session (MemoryStore._sessions, or
\* the session:<id> keys of Redis).
create_session(store, sid, initial_state, locale) ==
  LET defaults == ("game_phase" :> "early") @@ ("status" :> "even")
                  @@ ("timestamp" :> NoTime)
      state == DictUpdate(DictUpdate(AbsentState, defaults), initial_state)
  IN  [x \in DOMAIN store \cup {sid} |->
         IF x = sid THEN Session(state, locale, << >>) ELSE store[x]]

\* An update_session over one state dict shared by every session.
update_session_shared(store, sid, updates) ==
  IF sid \notin DOMAIN store THEN store
  ELSE [x \in DOMAIN store |-> [store[x] EXCEPT !.state = DictUpdate(@, updates)]]

\* An update_session whose history entries share the live state: every
\* recorded context follows the merged state.
update_session_aliased(store, sid, updates) ==
  IF sid \notin DOMAIN store THEN store
  ELSE LET state == DictUpdate(store[sid].state, updates)
       IN  [store EXCEPT
              ![sid].state = state,
              ![sid].history =
                [i \in DOMAIN @ |->
                   [@[i] EXCEPT !.context =
                      [champion |-> state.champion, lane |-> state.lane,
                       enemy |-> state.enemy, game_phase |-> state.game_phase,
                       status |-> state.status, gold |-> state.gold]]]]

update_session(store, sid, updates) ==
  IF sid \notin DOMAIN store THEN store
  ELSE [store EXCEPT ![sid].state = DictUpdate(@, updates)]

\* An append_history that trims with history[:MAX_HISTORY].
append_history_keeps_oldest(store, sid, item) ==
  IF sid \notin DOMAIN store THEN store
  ELSE LET appended_list == Append(store[sid].history, item)
       IN  [store EXCEPT ![sid].history =
              IF Len(appended_list) > MAX_HISTORY
              THEN SubSeq(appended_list, 1, MAX_HISTORY)
              ELSE appended_list]

append_history(store, sid, item) ==
  IF sid \notin DOMAIN store THEN store
  ELSE LET appended_list == Append(store[sid].history, item)
       IN  [store EXCEPT ![sid].history =
              IF Len(appended_list) > MAX_HISTORY
              THEN PySliceLast(appended_list, MAX_HISTORY)
              ELSE appended_list]

\* An end_session that returns the session and leaves it in the store.
end_session_keeps(store, sid) == store

end_session(store, sid) == [x \in DOMAIN store \ {sid} |-> store[x]]

\* -------------------------------------------------------------- app/db.py
\* a or b of Python on string-or-None values.
PyOr(a, b) == IF Truthy(a) THEN a ELSE b

AdviceKey(item, state) ==
  << PyOr(item.context.champion, state.champion),
     PyOr(item.context.lane, state.lane),
     PyOr(item.context.enemy, state.enemy),
     item.intent,
     PyOr(item.context.game_phase, state.game_phase),
     PyOr(item.context.status, state.status),
     item.reply >>

\* The unique index advice_unique: two rows conflict when every key column is
\* equal, and a NULL column is equal to nothing.
Conflicts(row, key) == row.key = key /\ \A i \in 1..Len(key) : key[i] # None

\* insert ... on conflict (...) do update set counters = counters + excluded.
Upsert(bank, key, positive, negative, score, now) ==
  IF \E i \in 1..Len(bank) : Conflicts(bank[i], key)
  THEN [i \in 1..Len(bank) |->
          IF Conflicts(bank[i], key)
          THEN [bank[i] EXCEPT !.positive_count = @ + positive,
                               !.negative_count = @ + negative,
                               !.score = @ + score,
                               !.last_seen = now]
          ELSE bank[i]]
  ELSE Append(bank, [key |-> key, positive_count |-> positive,
                     negative_count |-> negative, score |-> score,
                     last_seen |-> now])

RECURSIVE _update_advice_from_session(_, _, _, _, _)
_update_advice_from_session(bank, history, state, rating, now) ==
  IF history = << >> THEN bank
  ELSE LET item == Head(history)
           next == IF ~Truthy(item.reply) THEN bank
                   ELSE Upsert(bank, AdviceKey(item, state),
                               IF rating = "good" THEN 1 ELSE 0,
                               IF rating = "bad" THEN 1 ELSE 0,
                               IF rating = "good" THEN 1 ELSE 0 - 1,
                               now)
       IN  _update_advice_from_session(next, Tail(history), state, rating, now)

\* retrieve_advice(state, intent, limit=3)
DefaultLimit == 3

\* "case when column = %s then w else 0 end": NULL on either side is no match.
Match(column, value, weight) ==
  IF column # None /\ value # None /\ column = value THEN weight ELSE 0

\* A rank_score that weighs a champion match 5.
rank_score_champion_heavy(row, state, intent) ==
  Match(row.key[1], state.champion, 5) + Match(row.key[2], state.lane, 2)
  + Match(row.key[3], state.enemy, 2) + Match(row.key[4], intent, 2)
  + Match(row.key[5], state.game_phase, 1) + Match(row.key[6], state.status, 1)
  + row.score

\* The rank_score column of the select.
rank_score(row, state, intent) ==
  Match(row.key[1], state.champion, 3) + Match(row.key[2], state.lane, 2)
  + Match(row.key[3], state.enemy, 2) + Match(row.key[4], intent, 2)
  + Match(row.key[5], state.game_phase, 1) + Match(row.key[6], state.status, 1)
  + row.score

\* "order by rank_score desc, score desc, last_seen desc": row a may stand
\* before row b.
OrderBy(a, b, state, intent) ==
  LET ra == rank_score(a, state, intent)
      rb == rank_score(b, state, intent)
  IN  \/ ra > rb
      \/ ra = rb /\ a.score > b.score
      \/ ra = rb /\ a.score = b.score /\ a.last_seen >= b.last_seen

\* The orders in which the select may deliver the rows: every order the
\* order-by clause allows; rows equal in all three sort keys come in any order.
\* Built front to back: the next row is any remaining row that no remaining
\* row must precede. rows is the set of row numbers still to place.
RECURSIVE RowOrdersOf(_, _, _, _)
RowOrdersOf(bank, rows, state, intent) ==
  IF rows = {} THEN {<< >>}
  ELSE UNION {{<< x >> \o rest : rest \in RowOrdersOf(bank, rows \ {x}, state, intent)} :
                x \in {y \in rows :
                         \A z \in rows : OrderBy(bank[y], bank[z], state, intent)}}

RowOrders(bank, state, intent) == RowOrdersOf(bank, 1..Len(bank), state, intent)

\* "limit %s", then [row[0] for row in rows if row and row[0]].
LimitedTexts(bank, p, limit) ==
  LET k == IF Len(bank) < limit THEN Len(bank) ELSE limit
      texts == [i \in 1..k |-> bank[p[i]].key[7]]
      NonEmpty(t) == Truthy(t)
  IN  SelectSeq(texts, NonEmpty)

\* A retrieve_advice that ignores the limit.
retrieve_advice_unlimited(bank, dsn, fails, state, intent, limit) ==
  IF ~dsn \/ fails THEN {<< >>}
  ELSE {LimitedTexts(bank, p, Len(bank)) : p \in RowOrders(bank, state, intent)}

\* The lists retrieve_advice can return: [] without a DSN or when the query
\* fails, else the texts of the first rows of the select.
retrieve_advice(bank, dsn, fails, state, intent, limit) ==
  IF ~dsn \/ fails THEN {<< >>}
  ELSE {LimitedTexts(bank, p, limit) : p \in RowOrders(bank, state, intent)}

NoFeedback == "None"
Feedbacks == {NoFeedback, "good", "bad"}

\* The database after persist_session_end: nothing without a DSN, nothing
\* when the transaction fails (the connection block rolls back), else the
\* session_logs upsert and the reinforcement, committed together.
persist_session_end_db(database, dsn, fails, sid, session, feedback, now) ==
  IF ~dsn \/ fails THEN database
  ELSE [session_logs |->
          [x \in DOMAIN database.session_logs \cup {sid} |->
             IF x = sid THEN feedback ELSE database.session_logs[x]],
        advice_bank |->
          IF feedback \in {"good", "bad"}
          THEN _update_advice_from_session(database.advice_bank, session.history,
                                           session.state, feedback, now)
          ELSE database.advice_bank]

\* A persist_session_end without the try/except around the transaction.
persist_session_end_raises(dsn, fails) == IF dsn /\ fails THEN "raised" ELSE "returned"

\* How persist_session_end ends for its caller: "except Exception:
\* logger.exception(...)" swallows every failure of the transaction.
persist_session_end(dsn, fails) == "returned"

\* db.persist_turn is called by _process_turn and not defined in app/db.py;
\* taken from the error-handling design: logged and swallowed.
persist_turn(dsn, fails) == "returned"


\* ------------------------------------------------------------------ state
VARIABLES
  config,     \* the deployment: which store get_store built, LLM on, DSN set
  sessions,   \* the live store
  used,       \* the session ids handed out so far (uuid4 never repeats)
  audio,      \* the /turn/audio request suspended at "await audio.read()"
  database,   \* session_logs and advice_bank of Postgres
  request,    \* what the request that completed last carried
  response,   \* the envelope of the request that completed last
  handed,     \* per session id, how often it was passed to persist_session_end
  appended    \* per session id, every entry ever passed to append_history

\* State beside the session flow: the schema of Postgres and the flag db.py
\* keeps about it, the corrections table and the transactions writing to it,
\* the clock against which the store keeps sessions, and the text handed to
\* the pure functions of nlu.py with what they returned.
VARIABLES
  _tables_ready,  \* the module global of db.py
  schema,         \* TRUE when the create table statements are committed
  corrections,    \* the committed rows of the corrections table
  txn,            \* per connection, the open transaction writing a correction
  clock,          \* seconds since the process started
  expires,        \* per session id, when its key of the Redis store expires
  touched,        \* per session id, the clock of the last request on it
  utterance,      \* the input of the nlu function applied last
  analysis        \* what the nlu function returned

aux_vars ==
  << _tables_ready, schema, corrections, txn, clock, expires, touched,
     utterance, analysis >>

vars ==
  << config, sessions, used, audio, database, request, response, handed, appended,
     aux_vars >>

\* The session flow with the schema in place and nothing else going on.
AuxInit ==
  /\ _tables_ready = TRUE
  /\ schema = TRUE
  /\ corrections = << >>
  /\ txn = << >>
  /\ clock = 0
  /\ expires = << >>
  /\ touched = << >>
  /\ utterance = None
  /\ analysis = None

Config(store, llm, dsn) == [store |-> store, llm |-> llm, dsn |-> dsn]
Configs == {Config("memory", FALSE, FALSE), Config("redis", TRUE, TRUE)}

InitialContext(champion, lane, enemy) ==
  ("champion" :> champion) @@ ("lane" :> lane) @@ ("enemy" :> enemy)
InitialContexts == {InitialContext("yasuo", "mid", "zed"), InitialContext("", "", None)}

Locales == {"pt-BR"}

ClientHints ==
  { EmptyDict,
    ("champion" :> "ahri") @@ ("lane" :> "bot"),
    ("enemies" :> << EnemyStr("zed") >>) }

AdviceLists == { << >>, << "tip" >> }

NoAudio == [sid |-> None, session |-> Session(AbsentState, None, << >>)]

Request(blank, hint, intent, advice, items) ==
  [blank |-> blank, hint |-> hint, intent |-> intent, advice |-> advice,
   items |-> items]
NoRequest == Request(FALSE, EmptyDict, None, << >>, NoItemHints)
TurnRequest(u, hint, advice) ==
  Request(u.blank, hint, infer_intent(u), advice, extract_item_hints(u))

Response(n, op, sid, code, reply, raised_in, persist_failed) ==
  [n |-> n, op |-> op, sid |-> sid, code |-> code, reply |-> reply,
   raised_in |-> raised_in, persist_failed |-> persist_failed]

EmptyDatabase == [session_logs |-> << >>, advice_bank |-> << >>]

Init ==
  /\ config \in Configs
  /\ AuxInit
  /\ sessions = << >>
  /\ used = {}
  /\ audio = NoAudio
  /\ database = EmptyDatabase
  /\ request = NoRequest
  /\ response = Response(0, "none", None, "OK", None, "none", FALSE)
  /\ handed = [s \in SessionIds |-> 0]
  /\ appended = [s \in SessionIds |-> << >>]

\* ------------------------------------------------------------ app/main.py
TurnResult(store, code, reply, raised_in, entries) ==
  [store |-> store, code |-> code, reply |-> reply, raised_in |-> raised_in,
   entries |-> entries]

\* _process_turn from "updates.update(nlu.extract_state_hints(text_clean))" on:
\* the merge, the reply, the history entry.
MergeAndReply(store, session, sid, u, text_clean, now, updates0, advice, provider) ==
  LET updates1 == extract_state_hints(u) @@ updates0
      item_hints == extract_item_hints(u)
      updates2 == IF item_hints.kind # "none"
                  THEN _merge_item_hints(session.state, item_hints) @@ updates1
                  ELSE updates1
      updates3 == ("last_user_text" :> text_clean) @@ ("timestamp" :> now) @@ updates2
      updates4 == IF Truthy(session.state.champion)
                  THEN Pop(updates3, "champion") ELSE updates3
      updates == IF Truthy(session.state.lane)
                 THEN Pop(updates4, "lane") ELSE updates4
      store1 == update_session(store, sid, updates)
      updated_session == store1[sid]
      intent == infer_intent(u)
      reply == generate_reply(config.llm, updated_session.state, intent, advice, provider)
      store2 == update_session(store1, sid,
                  ("last_intent" :> intent) @@ ("last_reply" :> reply.text))
      turn_entry ==
        [text |-> text_clean, reply |-> reply.text, intent |-> intent,
         context |-> [champion |-> updated_session.state.champion,
                      lane |-> updated_session.state.lane,
                      enemy |-> updated_session.state.enemy,
                      game_phase |-> updated_session.state.game_phase,
                      status |-> updated_session.state.status,
                      gold |-> updated_session.state.gold],
         timestamp |-> now]
      store3 == append_history(store2, sid, turn_entry)
  IN  IF sid \notin DOMAIN store
      THEN TurnResult(store, "SESSION_NOT_FOUND", None, "none", << >>)
      ELSE IF reply.raised
      THEN TurnResult(store1, "INTERNAL_ERROR", None, "generate_reply", << >>)
      ELSE TurnResult(store3, "OK", reply.text, "none", << turn_entry >>)

\* A _process_turn without the "if not text_clean: raise" check.
_process_turn_unchecked(store, session, sid, u, now, client_state_hint, advice, provider) ==
  MergeAndReply(store, session, sid, u, IF u.blank THEN "" ELSE u.text, now,
                client_state_hint, advice, provider)

\* _process_turn(session, text, timestamp, client_state_hint) against the live
\* store: session is what the handler read with get_session before the call.
_process_turn(store, session, sid, u, now, client_state_hint, advice, provider) ==
  LET updates0 == client_state_hint
      text_clean == IF u.blank THEN "" ELSE u.text
  IN  IF text_clean = ""
      THEN TurnResult(store, "STT_UNCLEAR", None, "none", << >>)
      ELSE MergeAndReply(store, session, sid, u, text_clean, now, updates0,
                         advice, provider)

\* The envelope of a turn whose _process_turn ended with result r.
TurnResponse(op, sid, r, persist_fails) ==
  LET wrote == r.code = "OK" /\ config.dsn /\ persist_fails
  IN  IF r.code = "OK" /\ persist_turn(config.dsn, persist_fails) = "raised"
      THEN Response(response.n + 1, op, sid, "INTERNAL_ERROR", None, "persist_turn", wrote)
      ELSE Response(response.n + 1, op, sid, r.code, r.reply, r.raised_in, wrote)

Fails == IF config.dsn THEN BOOLEAN ELSE {FALSE}
Providers == IF config.llm THEN ProviderOutcomes ELSE {"exception"}
Advice == IF config.dsn THEN AdviceLists ELSE {<< >>}

\* POST /session/start
SessionStart(sid, initial_context, locale) ==
  /\ sid \notin used
  /\ sessions' = create_session(sessions, sid, initial_context, locale)
  /\ used' = used \cup {sid}
  /\ request' = NoRequest
  /\ response' = Response(response.n + 1, "start", sid, "OK", None, "none", FALSE)
  /\ UNCHANGED << config, audio, database, handed, appended >>

\* POST /turn
Turn(sid, u, hint, advice, provider, persist_fails) ==
  /\ request' = TurnRequest(u, hint, advice)
  /\ IF sid \notin DOMAIN sessions
     THEN /\ response' = Response(response.n + 1, "turn", sid, "SESSION_NOT_FOUND",
                                  None, "none", FALSE)
          /\ UNCHANGED << sessions, appended >>
     ELSE \E r \in {_process_turn(sessions, sessions[sid], sid, u, response.n + 1,
                                  hint, advice, provider)} :
            /\ sessions' = r.store
            /\ appended' = [appended EXCEPT ![sid] = @ \o r.entries]
            /\ response' = TurnResponse("turn", sid, r, persist_fails)
  /\ UNCHANGED << config, used, audio, database, handed >>

\* POST /turn/audio up to "await audio.read()": the session is read first.
AudioRead(sid) ==
  /\ audio = NoAudio
  /\ IF sid \notin DOMAIN sessions
     THEN /\ request' = NoRequest
          /\ response' = Response(response.n + 1, "audio", sid, "SESSION_NOT_FOUND",
                                  None, "none", FALSE)
          /\ UNCHANGED audio
     ELSE /\ audio' = [sid |-> sid, session |-> sessions[sid]]
          /\ UNCHANGED << request, response >>
  /\ UNCHANGED << config, sessions, used, database, handed, appended >>

\* The session object the suspended handler holds: MemoryStore.get_session
\* returned the stored object itself, RedisStore.get_session a decoded copy.
HeldSession ==
  IF config.store = "memory" /\ audio.sid \in DOMAIN sessions
  THEN sessions[audio.sid]
  ELSE audio.session

AudioOutcomes == {"empty_audio", "stt_failed", "stt_unclear", "text"}

\* POST /turn/audio from "await audio.read()" on.
AudioResume(outcome, u, advice, provider, persist_fails) ==
  /\ audio # NoAudio
  /\ audio' = NoAudio
  /\ IF outcome # "text"
     THEN /\ request' = NoRequest
          /\ response' = Response(response.n + 1, "audio", audio.sid,
                                  IF outcome = "stt_failed" THEN "STT_FAILED"
                                  ELSE "STT_UNCLEAR",
                                  None, "none", FALSE)
          /\ UNCHANGED << sessions, appended >>
     ELSE \E r \in {_process_turn(sessions, HeldSession, audio.sid, u, response.n + 1,
                                  EmptyDict, advice, provider)} :
            /\ request' = TurnRequest(u, EmptyDict, advice)
            /\ sessions' = r.store
            /\ appended' = [appended EXCEPT ![audio.sid] = @ \o r.entries]
            /\ response' = TurnResponse("audio", audio.sid, r, persist_fails)
  /\ UNCHANGED << config, used, database, handed >>

\* POST /session/end
SessionEnd(sid, feedback, persist_fails) ==
  /\ request' = NoRequest
  /\ IF sid \notin DOMAIN sessions
     THEN /\ response' = Response(response.n + 1, "end", sid, "SESSION_NOT_FOUND",
                                  None, "none", FALSE)
          /\ UNCHANGED << sessions, database, handed >>
     ELSE /\ sessions' = end_session(sessions, sid)
          /\ handed' = [handed EXCEPT ![sid] = @ + 1]
          /\ database' = persist_session_end_db(database, config.dsn, persist_fails, sid,
                                                sessions[sid], feedback, response.n + 1)
          /\ response' =
               IF persist_session_end(config.dsn, persist_fails) = "raised"
               THEN Response(response.n + 1, "end", sid, "INTERNAL_ERROR", None,
                             "persist_session_end", config.dsn /\ persist_fails)
               ELSE Response(response.n + 1, "end", sid, "OK", None, "none",
                             config.dsn /\ persist_fails)
  /\ UNCHANGED << config, used, audio, appended >>

\* ---------------------------------------------------------- specifications
\* Spec: one session, text and audio turns interleaved, session end.
Utterances == {U_blank, U_zed, U_espada, U_escudo}
MainIds == {"s1"}

Open == response.n < MaxRequests

Next ==
  \/ \E sid \in MainIds, c \in InitialContexts, l \in Locales :
       Open /\ UNCHANGED aux_vars /\ SessionStart(sid, c, l)
  \/ \E sid \in MainIds, u \in Utterances, h \in ClientHints,
        a \in Advice, p \in Providers, f \in Fails :
       Open /\ UNCHANGED aux_vars /\ Turn(sid, u, h, a, p, f)
  \/ \E sid \in MainIds : Open /\ UNCHANGED aux_vars /\ AudioRead(sid)
  \/ \E o \in AudioOutcomes, u \in Utterances \ {U_blank},
        a \in Advice, p \in Providers, f \in Fails :
       Open /\ UNCHANGED aux_vars /\ AudioResume(o, u, a, p, f)
  \/ \E sid \in MainIds, fb \in Feedbacks, f \in Fails :
       Open /\ UNCHANGED aux_vars /\ SessionEnd(sid, fb, f)

Spec == Init /\ [][Next]_vars

\* ------------------------------------------------------------------ claims
Live == DOMAIN sessions
Completed == response'.n # response.n

\* C1. Write-once fields: once state.champion (state.lane) of a session holds
\* a value, no later step on that session changes it.
C1_WriteOnce ==
  [][\A sid \in Live \cap DOMAIN sessions' :
       \A k \in {"champion", "lane"} :
         Truthy(sessions[sid].state[k])
           => sessions'[sid].state[k] = sessions[sid].state[k]]_vars

\* C2. A turn is all-or-nothing: a turn that answers an error leaves the live
\* store exactly as it was.
C2_AllOrNothing ==
  [][(Completed /\ response'.op \in {"turn", "audio"} /\ response'.code # "OK")
       => sessions' = sessions]_vars

C5_NoLostUpdate ==
  [][\A sid \in Live \cap DOMAIN sessions' :
       SeqRange(sessions[sid].state.self_items)
         \subseteq SeqRange(sessions'[sid].state.self_items)]_vars

\* C6. A blank utterance on a live session is answered STT_UNCLEAR and
\* changes nothing in the live store, whatever client_state_hint came with it.
C6_BlankRejected ==
  [][/\ (Completed /\ response'.op = "turn" /\ request'.blank
           /\ response'.sid \in Live)
          => response'.code = "STT_UNCLEAR"
     /\ (Completed /\ (request'.blank \/ response'.code = "STT_UNCLEAR"))
          => sessions' = sessions]_vars

C6_Witness ==
  /\ response.op = "turn"
  /\ request.blank
  /\ request.hint # EmptyDict
  /\ response.code = "STT_UNCLEAR"
  /\ response.sid \in Live

\* C7. Session end deletes the session: an ended session is gone from the
\* live store for good, every later turn or session end on its id answers
\* SESSION_NOT_FOUND and changes nothing, and the session is handed to the
\* durable log exactly once.
C7_EndDeletes ==
  [][/\ \A sid \in SessionIds :
          /\ handed'[sid] <= 1
          /\ (handed'[sid] = 1 => sid \notin DOMAIN sessions')
          /\ (sid \in Live /\ sid \notin DOMAIN sessions' => handed'[sid] = 1)
     /\ (Completed /\ response'.op \in {"turn", "end"}
           /\ handed[response'.sid] = 1)
          => (response'.code = "SESSION_NOT_FOUND" /\ sessions' = sessions)]_vars

C7_Witness ==
  /\ handed["s1"] = 1
  /\ response.op = "turn"
  /\ response.sid = "s1"
  /\ response.code = "SESSION_NOT_FOUND"

\* C8. strategy.generate_reply never raises because of the generative path.
C8_ReplyNeverRaises == response.raised_in # "generate_reply"

\* ------------------------------------------------------------ SpecHistory
\* Turns on two sessions, for both stores, past the history maximum.
HistoryConfigs == {Config("memory", FALSE, FALSE), Config("redis", FALSE, FALSE)}
HistoryUtterances == {U_oi, U_item}

InitHistory ==
  /\ config \in HistoryConfigs
  /\ AuxInit
  /\ sessions = << >>
  /\ used = {}
  /\ audio = NoAudio
  /\ database = EmptyDatabase
  /\ request = NoRequest
  /\ response = Response(0, "none", None, "OK", None, "none", FALSE)
  /\ handed = [s \in SessionIds |-> 0]
  /\ appended = [s \in SessionIds |-> << >>]

OpenHistory == response.n <= MaxAppends

NextHistory ==
  \/ \E sid \in SessionIds :
       OpenHistory /\ UNCHANGED aux_vars /\ SessionStart(sid, InitialContext("yasuo", "mid", "zed"), "pt-BR")
  \/ \E sid \in SessionIds, u \in HistoryUtterances :
       OpenHistory /\ UNCHANGED aux_vars /\ Turn(sid, u, EmptyDict, << >>, "exception", FALSE)

SpecHistory == InitHistory /\ [][NextHistory]_vars

Min(a, b) == IF a <= b THEN a ELSE b

ReplyConfigs == {Config("memory", FALSE, TRUE), Config("memory", TRUE, TRUE)}
ReplyUtterances == {U_item, U_agora, U_espada, U_enemy, U_frente}
ReplyHints == {EmptyDict, ("last_reply" :> None)}

InitReply ==
  /\ config \in ReplyConfigs
  /\ AuxInit
  /\ sessions = << >>
  /\ used = {}
  /\ audio = NoAudio
  /\ database = EmptyDatabase
  /\ request = NoRequest
  /\ response = Response(0, "none", None, "OK", None, "none", FALSE)
  /\ handed = [s \in SessionIds |-> 0]
  /\ appended = [s \in SessionIds |-> << >>]

NextReply ==
  \/ \E c \in InitialContexts : Open /\ UNCHANGED aux_vars /\ SessionStart("s1", c, "pt-BR")
  \/ \E u \in ReplyUtterances, h \in ReplyHints, a \in Advice, p \in Providers :
       Open /\ UNCHANGED aux_vars /\ Turn("s1", u, h, a, p, FALSE)

SpecReply == InitReply /\ [][NextReply]_vars

\* C9. With the generative collaborator disabled, intent build is answered
\* with the defensive-item template, whatever the state holds.
C9_BuildIsDefensive ==
  (response.op = "turn" /\ response.code = "OK" /\ ~config.llm
     /\ request.intent = "build")
    => response.reply = "build_defensive"

C9_Witness ==
  /\ response.op = "turn"
  /\ response.code = "OK"
  /\ ~config.llm
  /\ request.intent = "build"
  /\ request.advice # << >>
  /\ sessions["s1"].state.last_enemy_item # NoEnemyItem
  /\ response.reply = "build_defensive"

\* The last_reply the cascade sees in a turn: the stored one, unless the
\* client_state_hint of the turn overwrites it.
SeenLastReply(sid) ==
  IF "last_reply" \in DOMAIN request'.hint THEN request'.hint["last_reply"]
  ELSE sessions[sid].state.last_reply

\* C10. With the generative collaborator disabled, intent follow_up without a
\* last reply does not raise and is answered by the later steps: top advice,
\* else the matchup template, else the need-context request.
C10_FollowUpFallsThrough ==
  [][(Completed /\ response'.op = "turn" /\ response'.sid \in Live /\ ~config.llm
        /\ request'.intent = "follow_up" /\ ~Truthy(SeenLastReply(response'.sid)))
       => /\ response'.code = "OK"
          /\ response'.reply =
               IF request'.advice # << >> THEN request'.advice[1]
               ELSE IF /\ Truthy(sessions'[response'.sid].state.champion)
                       /\ Truthy(sessions'[response'.sid].state.enemy)
                       /\ Truthy(sessions'[response'.sid].state.lane)
                    THEN "matchup"
               ELSE "need_context"]_vars

C10_Witness ==
  /\ response.op = "turn"
  /\ response.code = "OK"
  /\ ~config.llm
  /\ request.intent = "follow_up"
  /\ sessions["s1"].state.last_self_item = "espada"
  /\ response.reply = "matchup"

\* C11. When the generative collaborator yields nothing and no intent template
\* applies, the reply is the first applicable of: enemy-item reply, self-item
\* reply, top advice, matchup template, continue-strategy template,
\* need-context request.
C11_CascadeOrder ==
  [][(/\ Completed /\ response'.op = "turn" /\ response'.code = "OK"
      /\ response'.reply # "llm_text"
      /\ request'.intent \notin {"build", "all_in", "objective", "macro"}
      /\ ~(request'.intent = "follow_up" /\ Truthy(SeenLastReply(response'.sid))))
       => LET s == sessions'[response'.sid].state
              i == request'.intent
          IN  response'.reply =
                IF /\ i \in {"build", "general"}
                   /\ Truthy(s.last_enemy_item.champion)
                   /\ Truthy(s.last_enemy_item.item)
                THEN "enemy_item"
                ELSE IF i \in {"build", "general"} /\ Truthy(s.last_self_item)
                THEN "self_item"
                ELSE IF request'.advice # << >> THEN request'.advice[1]
                ELSE IF Truthy(s.champion) /\ Truthy(s.enemy) /\ Truthy(s.lane)
                THEN "matchup"
                ELSE IF Truthy(SeenLastReply(response'.sid))
                THEN "continue_strategy"
                ELSE "need_context"]_vars

C11_Witness ==
  /\ response.op = "turn"
  /\ response.code = "OK"
  /\ request.intent = "status"
  /\ request.advice = << >>
  /\ sessions["s1"].state.last_self_item = "espada"
  /\ response.reply = "continue_strategy"

\* C12. The enemy-item reply answers only a turn whose own utterance recorded
\* an enemy-item event.
C12_EnemyItemOnlyLastTurn ==
  [][(Completed /\ response'.op = "turn" /\ response'.code = "OK"
        /\ response'.reply = "enemy_item")
       => request'.items.kind = "enemy_item"]_vars

\* -------------------------------------------------------------- SpecItems
\* Item events of the player and of enemies on one session, in text turns
\* and in an audio turn suspended across them, for both stores.
ItemUtterances ==
  {U_espada, U_fazendo, U_fazendo_escudo, U_enemy, U_enemy_fazendo, U_ahri_fazendo}

NextItems ==
  \/ Open /\ UNCHANGED aux_vars /\ SessionStart("s1", InitialContext("yasuo", "mid", "zed"), "pt-BR")
  \/ \E u \in ItemUtterances : Open /\ UNCHANGED aux_vars /\ Turn("s1", u, EmptyDict, << >>, "exception", FALSE)
  \/ Open /\ UNCHANGED aux_vars /\ AudioRead("s1")
  \/ \E o \in AudioOutcomes, u \in ItemUtterances :
       Open /\ UNCHANGED aux_vars /\ AudioResume(o, u, << >>, "exception", FALSE)

SpecItems == InitHistory /\ [][NextItems]_vars

NoDuplicates(list) ==
  \A i, j \in 1..Len(list) : list[i] = list[j] => i = j

\* C13. Item accumulation is duplicate-free: self_items and every
\* enemy_items[champion] hold each item at most once.
C13_NoDuplicateItems ==
  \A sid \in Live :
    /\ NoDuplicates(sessions[sid].state.self_items)
    /\ \A c \in DOMAIN sessions[sid].state.enemy_items :
         NoDuplicates(sessions[sid].state.enemy_items[c])

C13_Witness ==
  /\ "s1" \in Live
  /\ Len(appended["s1"]) >= 2
  /\ appended["s1"][1].text = "to com espada"
  /\ appended["s1"][2].text = "to com espada"
  /\ sessions["s1"].state.self_items = << "espada" >>

\* C14. A building pointer (self_building, enemy_building[champion]) that is
\* set changes only in a turn whose utterance carries a building event for
\* that subject, and then to that event's item; a has event leaves it alone.
C14_BuildingPointerKept ==
  [][\A sid \in Live \cap DOMAIN sessions' :
       LET s == sessions[sid].state
           t == sessions'[sid].state
           it == request'.items
       IN  /\ (Truthy(s.self_building) /\ t.self_building # s.self_building)
                => /\ Completed
                   /\ it.kind = "self_item"
                   /\ it.status = "building"
                   /\ it.item = t.self_building
           /\ \A c \in DOMAIN s.enemy_building :
                (c \notin DOMAIN t.enemy_building
                   \/ t.enemy_building[c] # s.enemy_building[c])
                  => /\ Completed
                     /\ c \in DOMAIN t.enemy_building
                     /\ it.kind = "enemy_item"
                     /\ it.champion = c
                     /\ it.status = "building"
                     /\ it.item = t.enemy_building[c]]_vars

\* ---------------------------------------------------------- SpecIsolation
\* Two sessions side by side: text turns, a suspended audio turn and session
\* ends on either, for both stores.
IsolationUtterances == {U_espada, U_zed}
IsolationHints == {EmptyDict, ("champion" :> "ahri") @@ ("lane" :> "bot")}

NextIsolation ==
  \/ \E sid \in SessionIds, c \in InitialContexts :
       Open /\ UNCHANGED aux_vars /\ SessionStart(sid, c, "pt-BR")
  \/ \E sid \in SessionIds, u \in IsolationUtterances, h \in IsolationHints :
       Open /\ UNCHANGED aux_vars /\ Turn(sid, u, h, << >>, "exception", FALSE)
  \/ \E sid \in SessionIds : Open /\ UNCHANGED aux_vars /\ AudioRead(sid)
  \/ \E o \in AudioOutcomes, u \in IsolationUtterances :
       Open /\ UNCHANGED aux_vars /\ AudioResume(o, u, << >>, "exception", FALSE)
  \/ \E sid \in SessionIds : Open /\ UNCHANGED aux_vars /\ SessionEnd(sid, NoFeedback, FALSE)

SpecIsolation == InitHistory /\ [][NextIsolation]_vars

\* C15. A request on one session leaves every other live session as it was:
\* same state, same locale, same history.
C15_SessionIsolation ==
  [][\A sid \in Live :
       (~Completed \/ response'.sid # sid)
         => (sid \in DOMAIN sessions' /\ sessions'[sid] = sessions[sid])]_vars

C15_Witness ==
  /\ {"s1", "s2"} \subseteq Live
  /\ response.op \in {"turn", "audio"}
  /\ response.code = "OK"
  /\ response.sid = "s1"
  /\ sessions["s1"].state.self_items = << "espada" >>
  /\ sessions["s2"].state.self_items = << >>
  /\ sessions["s2"].history = << >>

\* ------------------------------------------------------------- SpecAdvice
\* Sessions one after the other against one advice bank: each is started,
\* takes turns whose advice is what retrieve_advice returns from the bank, and
\* is ended with feedback, which reinforces the bank.
AdviceIds == {"s1", "s2", "s3"}
AdviceConfigs == {Config("memory", FALSE, TRUE)}
\* The initial_context values the first, the second and the third session may start with.
AdviceContexts ==
  [s1 |-> {InitialContext("yasuo", "mid", None)},
   s2 |-> {InitialContext("zed", "top", "ahri"), InitialContext("ahri", "top", "zed")},
   s3 |-> {InitialContext("zed", "mid", "zed")}]
AdviceUtterances == {U_oi, U_item}
MaxAdviceRequests == 10
MaxSessionTurns == 2

InitAdvice ==
  /\ config \in AdviceConfigs
  /\ AuxInit
  /\ sessions = << >>
  /\ used = {}
  /\ audio = NoAudio
  /\ database = EmptyDatabase
  /\ request = NoRequest
  /\ response = Response(0, "none", None, "OK", None, "none", FALSE)
  /\ handed = [s \in AdviceIds |-> 0]
  /\ appended = [s \in AdviceIds |-> << >>]

OpenAdvice == response.n < MaxAdviceRequests

\* The state _process_turn passes to db.retrieve_advice: the session state
\* after the first update_session.
QueryState(sid, u) ==
  _process_turn(sessions, sessions[sid], sid, u, response.n + 1, EmptyDict,
                << >>, "exception").store[sid].state

\* POST /turn with the advice db.retrieve_advice returns.
TurnRetrieving(sid, u, retrieve_fails) ==
  /\ sid \in DOMAIN sessions
  /\ \E a \in retrieve_advice(database.advice_bank, config.dsn, retrieve_fails,
                              QueryState(sid, u), infer_intent(u), DefaultLimit) :
       Turn(sid, u, EmptyDict, a, "exception", FALSE)

\* uuid4 ids are opaque: the next session takes the next unused id.
IdOrder == [s1 |-> 1, s2 |-> 2, s3 |-> 3]

NextAdvice ==
  \/ \E sid \in AdviceIds :
       /\ OpenAdvice /\ UNCHANGED aux_vars
       /\ sessions = << >>
       /\ \A x \in AdviceIds \ used : IdOrder[sid] <= IdOrder[x]
       /\ \E c \in AdviceContexts[sid] : SessionStart(sid, c, "pt-BR")
  \/ \E sid \in AdviceIds, u \in AdviceUtterances :
       OpenAdvice /\ UNCHANGED aux_vars /\ Len(appended[sid]) < MaxSessionTurns /\ TurnRetrieving(sid, u, FALSE)
  \/ \E sid \in AdviceIds, fb \in {"good", "bad"} :
       OpenAdvice /\ UNCHANGED aux_vars /\ sid \in DOMAIN sessions /\ SessionEnd(sid, fb, FALSE)

SpecAdvice == InitAdvice /\ [][NextAdvice]_vars

\* The turn that completed last ran on a session that is still live: its
\* state holds the champion, lane, enemy, phase and status the query used.
Retrieved ==
  /\ response.op = "turn"
  /\ response.code = "OK"
  /\ response.sid \in Live

Known(column, value) == column # None /\ value # None /\ column = value

\* The rank score as the ranking rule states it.
RuleRank(row, state, intent) ==
  (IF Known(row.key[1], state.champion) THEN 3 ELSE 0)
  + (IF Known(row.key[2], state.lane) THEN 2 ELSE 0)
  + (IF Known(row.key[3], state.enemy) THEN 2 ELSE 0)
  + (IF Known(row.key[4], intent) THEN 2 ELSE 0)
  + (IF Known(row.key[5], state.game_phase) THEN 1 ELSE 0)
  + (IF Known(row.key[6], state.status) THEN 1 ELSE 0)
  + row.score

\* Row a is not ranked after row b: higher rank score, then higher stored
\* score, then later last_seen.
RuleBefore(a, b, state, intent) ==
  LET ra == RuleRank(a, state, intent)
      rb == RuleRank(b, state, intent)
  IN  \/ ra > rb
      \/ ra = rb /\ a.score > b.score
      \/ ra = rb /\ a.score = b.score /\ a.last_seen >= b.last_seen

\* p lists every row of the bank once, no row before one the rule ranks
\* strictly higher.
RuleSorted(bank, p, state, intent) ==
  /\ Len(p) = Len(bank)
  /\ \A i, j \in 1..Len(p) : i # j => p[i] # p[j]
  /\ \A i, j \in 1..Len(p) :
       i < j => RuleBefore(bank[p[i]], bank[p[j]], state, intent)

\* C16. The advice a turn gets follows the ranking rule: it lists the reply
\* texts of the bank's rows by rank score descending, ties by stored score
\* descending, then by last_seen descending.
C16_RankOrder ==
  Retrieved =>
    LET bank == database.advice_bank
        r == request.advice
        st == sessions[response.sid].state
    IN  /\ Len(r) <= Len(bank)
        /\ \E p \in RowOrders(bank, st, request.intent) :
             /\ RuleSorted(bank, p, st, request.intent)
             /\ \A k \in 1..Len(r) : r[k] = bank[p[k]].key[7]

\* Two rows of equal stored score, one matching only lane and intent (of
\* champion, lane, intent), the other only the champion: the first is served
\* first.
C16_Witness ==
  /\ Retrieved
  /\ Len(request.advice) = 2
  /\ \E i, j \in 1..Len(database.advice_bank) :
       LET a == database.advice_bank[i]
           b == database.advice_bank[j]
           st == sessions[response.sid].state
       IN  /\ a.score = b.score
           /\ ~Known(a.key[1], st.champion)
           /\ Known(a.key[2], st.lane)
           /\ Known(a.key[4], request.intent)
           /\ Known(b.key[1], st.champion)
           /\ ~Known(b.key[2], st.lane)
           /\ ~Known(b.key[4], request.intent)
           /\ a.key[7] # b.key[7]
           /\ request.advice = << a.key[7], b.key[7] >>

\* The first K non-empty reply texts of the rows taken in order p.
RuleTopK(bank, p, K) ==
  LET NonEmpty(t) == Truthy(t)
      texts == SelectSeq([i \in 1..Len(bank) |-> bank[p[i]].key[7]], NonEmpty)
  IN  IF Len(texts) <= K THEN texts ELSE SubSeq(texts, 1, K)

C18_Deterministic ==
  Retrieved =>
    Cardinality(retrieve_advice(database.advice_bank, TRUE, FALSE,
                                sessions[response.sid].state, request.intent,
                                DefaultLimit)) = 1

\* --------------------------------------------------------------------------
\* SpecBank: two sessions that may be live together take turns and are ended
\* with a rating; every successful end reinforces the advice bank.
BankIds == {"s1", "s2"}
BankContexts == {InitialContext("yasuo", "mid", "zed"), InitialContext("yasuo", "mid", None)}
BankUtterances == {U_item, U_oi}
BankRatings == {"good", "bad"}
MaxBankRequests == 7

OpenBank == response.n < MaxBankRequests

NextBank ==
  \/ \E sid \in BankIds, c \in BankContexts :
       OpenBank /\ UNCHANGED aux_vars /\ SessionStart(sid, c, "pt-BR")
  \/ \E sid \in BankIds, u \in BankUtterances :
       OpenBank /\ UNCHANGED aux_vars /\ TurnRetrieving(sid, u, FALSE)
  \/ \E sid \in BankIds, fb \in BankRatings, f \in Fails :
       OpenBank /\ UNCHANGED aux_vars /\ sid \in DOMAIN sessions /\ SessionEnd(sid, fb, f)

SpecBank == InitAdvice /\ [][NextBank]_vars

\* The rows of the bank that hold a key.
RowsOf(bank, key) == {i \in 1..Len(bank) : bank[i].key = key}

\* The keys the history of a session produces: one per entry with a reply.
HistoryKeys(session) ==
  {AdviceKey(session.history[i], session.state) :
     i \in {j \in 1..Len(session.history) : Truthy(session.history[j].reply)}}

\* How many entries of the history produce the key.
Reinforcements(session, key) ==
  Cardinality({i \in 1..Len(session.history) :
                 /\ Truthy(session.history[i].reply)
                 /\ AdviceKey(session.history[i], session.state) = key})

\* A session end whose transaction committed a reinforcement of the session.
Reinforced(sid) ==
  /\ response'.op = "end"
  /\ response'.code = "OK"
  /\ response'.sid = sid
  /\ ~response'.persist_failed
  /\ config.dsn
  /\ sid \in DOMAIN sessions
  /\ sid \notin DOMAIN sessions'

\* C19. AdviceRecord uniqueness: the bank never holds two rows with the same
\* (champion, lane, enemy, intent, game_phase, status, reply_text).
C19_UniqueKey ==
  \A i, j \in 1..Len(database.advice_bank) :
    database.advice_bank[i].key = database.advice_bank[j].key => i = j

\* C20. Reinforcement is additive: after a session end with a rating, every
\* key of the session's history is held by one row, whose positive_count and
\* negative_count grew by the number of entries with that key under good and
\* under bad, and whose score is positive_count - negative_count.
C20_Additive ==
  [][\A sid \in BankIds :
       Reinforced(sid) =>
         \A key \in HistoryKeys(sessions[sid]) :
           LET n   == Reinforcements(sessions[sid], key)
               fb  == database'.session_logs[sid]
               old == RowsOf(database.advice_bank, key)
               new == RowsOf(database'.advice_bank, key)
               pos == IF old = {} THEN 0
                      ELSE database.advice_bank[CHOOSE i \in old : TRUE].positive_count
               neg == IF old = {} THEN 0
                      ELSE database.advice_bank[CHOOSE i \in old : TRUE].negative_count
           IN  /\ Cardinality(new) = 1
               /\ \A i \in new :
                    LET row == database'.advice_bank[i]
                    IN  /\ row.positive_count = pos + (IF fb = "good" THEN n ELSE 0)
                        /\ row.negative_count = neg + (IF fb = "bad" THEN n ELSE 0)
                        /\ row.score = row.positive_count - row.negative_count]_vars

\* --------------------------------------------------------------------------
\* SpecCorrections: save_correction called on connections of their own, which
\* Postgres runs at READ COMMITTED: the select of _write_correction sees the
\* rows committed so far, and the update or insert that follows is committed
\* by a later step.
Correction(champion, ability, topic, wrong_info, correct_info) ==
  [champion |-> champion, ability |-> ability, topic |-> topic,
   wrong_info |-> wrong_info, correct_info |-> correct_info]

CorrectionInputs ==
  { Correction("Yasuo", None, "cooldown", "errado", "Atravessa minions"),
    Correction("yasuo", None, "cooldown", "errado", "atravessa minions"),
    Correction("yasuo", None, "cooldown", "errado", "dez segundos"),
    Correction(None, None, None, "errado", "dez segundos") }

\* lower() of SQL on the strings in use.
lower(str) ==
  CASE str = "Yasuo" -> "yasuo"
    [] str = "Atravessa minions" -> "atravessa minions"
    [] OTHER -> str

coalesce(value, default) == IF value = None THEN default ELSE value

\* The where clause of the select in _write_correction.
SameCorrection(row, c) ==
  /\ lower(coalesce(row.champion, "")) = lower(coalesce(c.champion, ""))
  /\ lower(coalesce(row.ability, "")) = lower(coalesce(c.ability, ""))
  /\ lower(coalesce(row.topic, "")) = lower(coalesce(c.topic, ""))
  /\ lower(row.correct_info) = lower(c.correct_info)

\* "select id, confidence ... limit 1" and fetchone(): a matching row, or no
\* row at all.
Existing(rows, c) ==
  IF \E i \in 1..Len(rows) : SameCorrection(rows[i], c)
  THEN {[found |-> TRUE, id |-> rows[i].id] :
          i \in {j \in 1..Len(rows) : SameCorrection(rows[j], c)}}
  ELSE {[found |-> FALSE, id |-> 0]}

\* The statement _write_correction issues after the select, on the rows
\* committed by then: the update adds to the confidence the row has.
_write_correction(rows, c, existing, sid) ==
  IF existing.found
  THEN [i \in 1..Len(rows) |->
          IF rows[i].id = existing.id
          THEN [rows[i] EXCEPT !.confidence = @ + 1]
          ELSE rows[i]]
  ELSE Append(rows, [id |-> Len(rows) + 1, champion |-> c.champion,
                     ability |-> c.ability, topic |-> c.topic,
                     wrong_info |-> c.wrong_info, correct_info |-> c.correct_info,
                     source_session |-> sid, confidence |-> 1])

Connections == {"c1", "c2"}
MaxWrites == 3

RECURSIVE TotalConfidence(_)
TotalConfidence(rows) ==
  IF rows = << >> THEN 0 ELSE Head(rows).confidence + TotalConfidence(Tail(rows))

OpenCorrections ==
  TotalConfidence(corrections) + Cardinality(DOMAIN txn) < MaxWrites

session_vars ==
  << config, sessions, used, audio, database, request, response, handed, appended >>

\* save_correction up to the fetchone() of the select.
SaveCorrectionSelect(conn, c) ==
  /\ config.dsn
  /\ conn \notin DOMAIN txn
  /\ \E existing \in Existing(corrections, c) :
       txn' = txn @@ (conn :> [correction |-> c, existing |-> existing])
  /\ UNCHANGED << _tables_ready, schema, corrections, clock, expires, touched,
                  utterance, analysis >>
  /\ UNCHANGED session_vars

\* save_correction from the fetchone() on: the write and the commit, which
\* also commits the tables _ensure_tables created on this connection.
SaveCorrectionWrite(conn) ==
  /\ conn \in DOMAIN txn
  /\ corrections' = _write_correction(corrections, txn[conn].correction,
                                      txn[conn].existing, None)
  /\ txn' = [x \in DOMAIN txn \ {conn} |-> txn[x]]
  /\ schema' = TRUE
  /\ UNCHANGED << _tables_ready, clock, expires, touched,
                  utterance, analysis >>
  /\ UNCHANGED session_vars

\* save_correction when the write raises: "except Exception" returns False
\* and the connection block rolls back.
SaveCorrectionFail(conn) ==
  /\ conn \in DOMAIN txn
  /\ txn' = [x \in DOMAIN txn \ {conn} |-> txn[x]]
  /\ UNCHANGED << _tables_ready, schema, corrections, clock, expires, touched,
                  utterance, analysis >>
  /\ UNCHANGED session_vars

InitCorrections ==
  /\ config = Config("memory", TRUE, TRUE)
  /\ sessions = << >>
  /\ used = {}
  /\ audio = NoAudio
  /\ database = EmptyDatabase
  /\ request = NoRequest
  /\ response = Response(0, "none", None, "OK", None, "none", FALSE)
  /\ handed = [s \in SessionIds |-> 0]
  /\ appended = [s \in SessionIds |-> << >>]
  /\ AuxInit

NextCorrections ==
  \/ \E conn \in Connections, c \in CorrectionInputs :
       OpenCorrections /\ SaveCorrectionSelect(conn, c)
  \/ \E conn \in Connections : SaveCorrectionWrite(conn)
  \/ \E conn \in Connections : SaveCorrectionFail(conn)

SpecCorrections == InitCorrections /\ [][NextCorrections]_vars

\* The rows a correction write is a duplicate of.
Duplicates(rows, c) == {i \in 1..Len(rows) : SameCorrection(rows[i], c)}

\* C21. Corrections are deduplicated: after every committed write of a
\* correction one row holds its (champion, ability, topic) and normalized
\* correct_info, and the confidence of that row is one more than before the
\* write (1 when there was none).
C21_Deduplicated ==
  [][\A conn \in DOMAIN txn :
       corrections' # corrections /\ conn \notin DOMAIN txn' =>
         LET c   == txn[conn].correction
             old == Duplicates(corrections, c)
             new == Duplicates(corrections', c)
         IN  /\ Cardinality(new) = 1
             /\ \A i \in new :
                  corrections'[i].confidence =
                    1 + (IF old = {} THEN 0
                         ELSE corrections[CHOOSE j \in old : TRUE].confidence)]_vars

\* --------------------------------------------------------------------------
\* SpecTTL: sessions of either store are started, take turns and are ended
\* while the clock advances.
SESSION_TTL_SECONDS == 2
MaxClock == 4
MaxTtlRequests == 4
TtlUtterances == {U_blank, U_oi}

\* RedisStore._set_session: setex(key, SESSION_TTL_SECONDS, payload). The
\* MemoryStore keeps its dict and sets nothing.
setex(sid) ==
  IF config.store = "redis"
  THEN [x \in DOMAIN expires \cup {sid} |->
          IF x = sid THEN clock + SESSION_TTL_SECONDS ELSE expires[x]]
  ELSE expires

Touch(sid) == [x \in DOMAIN touched \cup {sid} |-> IF x = sid THEN clock ELSE touched[x]]

OpenTtl == response.n < MaxTtlRequests

ttl_frame == UNCHANGED << _tables_ready, schema, corrections, txn, clock, utterance, analysis >>

\* POST /session/start: create_session ends with _set_session.
StartAt(sid, c) ==
  /\ SessionStart(sid, c, "pt-BR")
  /\ expires' = setex(sid)
  /\ touched' = Touch(sid)
  /\ ttl_frame

\* POST /turn: update_session and append_history end with _set_session; a
\* turn that is refused before update_session sets nothing.
TurnAt(sid, u) ==
  /\ Turn(sid, u, EmptyDict, << >>, "exception", FALSE)
  /\ expires' = IF sid \in DOMAIN sessions /\ ~u.blank THEN setex(sid) ELSE expires
  /\ touched' = Touch(sid)
  /\ ttl_frame

\* POST /session/end: end_session deletes the key.
EndAt(sid) ==
  /\ SessionEnd(sid, NoFeedback, FALSE)
  /\ expires' = [x \in DOMAIN expires \ {sid} |-> expires[x]]
  /\ touched' = Touch(sid)
  /\ ttl_frame

\* One second passes; Redis no longer returns the keys whose time is up.
Tick ==
  /\ clock < MaxClock
  /\ clock' = clock + 1
  /\ sessions' = [x \in {y \in DOMAIN sessions :
                           y \in DOMAIN expires => expires[y] > clock + 1} |->
                    sessions[x]]
  /\ expires' = [x \in {y \in DOMAIN expires : expires[y] > clock + 1} |-> expires[x]]
  /\ UNCHANGED << config, used, audio, database, request, response, handed, appended >>
  /\ UNCHANGED << _tables_ready, schema, corrections, txn, touched, utterance, analysis >>

NextTTL ==
  \/ \E sid \in SessionIds : OpenTtl /\ StartAt(sid, InitialContext("yasuo", "mid", "zed"))
  \/ \E sid \in SessionIds, u \in TtlUtterances : OpenTtl /\ TurnAt(sid, u)
  \/ \E sid \in SessionIds : OpenTtl /\ EndAt(sid)
  \/ Tick

SpecTTL == InitHistory /\ [][NextTTL]_vars

\* A session that received no request for the TTL.
Idle(sid) == sid \in DOMAIN touched /\ clock - touched[sid] >= SESSION_TTL_SECONDS

\* C22. Idle expiry: a session without a request for SESSION_TTL_SECONDS is
\* not in the live store, and a turn on it ends with SESSION_NOT_FOUND,
\* whichever store is in use.
C22_IdleExpiry ==
  [][\A sid \in SessionIds :
       Idle(sid) =>
         /\ sid \notin DOMAIN sessions
         /\ response'.n # response.n /\ response'.op = "turn" /\ response'.sid = sid
              => response'.code = "SESSION_NOT_FOUND"]_vars

\* --------------------------------------------------------------------------
\* app/nlu.py on the characters of a text. A text is a sequence of
\* characters; "a~" and "a'" stand for the letters a with tilde and a with
\* acute accent, "\\" for one backslash.
INTENTS ==
  << [intent |-> "build", keywords |->
        << << "i", "t", "e", "m" >>,
           << "b", "u", "i", "l", "d" >>,
           << "p", "r", "o", "x", "i", "m", "o" >>,
           << "p", "r", "o", "x" >>,
           << "c", "o", "m", "p", "r", "a", "r" >>,
           << "n", "e", "x", "t" >>,
           << "b", "u", "y" >> >>],
     [intent |-> "all_in", keywords |->
        << << "a", "l", "l", "-", "i", "n" >>,
           << "a", "l", "l", " ", "i", "n" >>,
           << "a", "l", "l", "i", "n" >> >>],
     [intent |-> "objective", keywords |->
        << << "d", "r", "a", "g", "a", "o" >>,
           << "a", "r", "a", "u", "t", "o" >>,
           << "b", "a", "r", "o", "n" >>,
           << "o", "b", "j", "e", "t", "i", "v", "o" >>,
           << "d", "r", "a", "g", "o", "n" >>,
           << "h", "e", "r", "a", "l", "d" >>,
           << "o", "b", "j", "e", "c", "t", "i", "v", "e" >> >>],
     [intent |-> "status", keywords |->
        << << "n", "a", " ", "f", "r", "e", "n", "t", "e" >>,
           << "a", "t", "r", "a", "s" >>,
           << "e", "m", "p", "a", "t", "a", "d", "o" >>,
           << "e", "v", "e", "n" >>,
           << "a", "h", "e", "a", "d" >>,
           << "b", "e", "h", "i", "n", "d" >> >>],
     [intent |-> "macro", keywords |->
        << << "m", "a", "c", "r", "o" >>,
           << "s", "p", "l", "i", "t" >>,
           << "a", "g", "r", "u", "p", "o" >>,
           << "g", "r", "o", "u", "p" >>,
           << "t", "e", "a", "m", "f", "i", "g", "h", "t" >>,
           << "t", "f" >>,
           << "t", "e", "a", "m", " ", "f", "i", "g", "h", "t" >> >>],
     [intent |-> "follow_up", keywords |->
        << << "e", " ", "a", "g", "o", "r", "a" >>,
           << "a", "g", "o", "r", "a", " ", "o", " ", "q", "u", "e" >>,
           << "c", "o", "n", "t", "i", "n", "u", "o" >>,
           << "s", "e", "g", "u", "i", "n", "t", "e" >>,
           << "w", "h", "a", "t", " ", "n", "o", "w" >>,
           << "a", "n", "d", " ", "n", "o", "w" >> >>],
     [intent |-> "matchup", keywords |->
        << << "c", "o", "n", "t", "r", "a" >>,
           << "v", "e", "r", "s", "u", "s" >>,
           << "v", "s" >>,
           << "m", "a", "t", "c", "h", "u", "p" >>,
           << "e", "n", "f", "r", "e", "n", "t", "a", "n", "d", "o" >>,
           << "a", "g", "a", "i", "n", "s", "t" >> >>] >>

\* str.lower() of a character.
char_lower(c) ==
  CASE c = "I" -> "i" [] c = "T" -> "t" [] c = "E" -> "e" [] c = "M" -> "m"
    [] OTHER -> c

\* unicodedata.normalize("NFD", ...) without the combining marks, lowered.
char_normalize(c) ==
  CASE c = "a~" -> "a" [] c = "a'" -> "a" [] OTHER -> char_lower(c)

text_lower(text) == [i \in 1..Len(text) |-> char_lower(text[i])]
_normalize(text) == [i \in 1..Len(text) |-> char_normalize(text[i])]

\* keyword in text
Occurs(keyword, text) ==
  \E i \in 1..(Len(text) - Len(keyword) + 1) :
    SubSeq(text, i, i + Len(keyword) - 1) = keyword

\* The position of the first occurrence of a keyword in a text.
FirstAt(keyword, text) ==
  CHOOSE i \in 1..(Len(text) - Len(keyword) + 1) :
    /\ SubSeq(text, i, i + Len(keyword) - 1) = keyword
    /\ \A j \in 1..(i - 1) : SubSeq(text, j, j + Len(keyword) - 1) # keyword

AnyOccurs(keywords, text) == \E j \in 1..Len(keywords) : Occurs(keywords[j], text)

\* An infer_intent that returns the intent whose keyword comes first in the
\* text.
infer_intent_by_position(text) ==
  LET lowered == text_lower(text)
      hits == {<< k, j >> \in (1..Len(INTENTS)) \X (1..7) :
                 /\ j <= Len(INTENTS[k].keywords)
                 /\ Occurs(INTENTS[k].keywords[j], lowered)}
  IN  IF hits = {} THEN "general"
      ELSE LET first == CHOOSE h \in hits :
                          \A g \in hits :
                            \/ FirstAt(INTENTS[h[1]].keywords[h[2]], lowered)
                                 < FirstAt(INTENTS[g[1]].keywords[g[2]], lowered)
                            \/ /\ FirstAt(INTENTS[h[1]].keywords[h[2]], lowered)
                                    = FirstAt(INTENTS[g[1]].keywords[g[2]], lowered)
                               /\ h[1] <= g[1]
           IN  INTENTS[first[1]].intent

\* for intent, keywords in INTENTS.items(): ... return intent
RECURSIVE IntentFrom(_, _)
IntentFrom(k, lowered) ==
  IF k > Len(INTENTS) THEN "general"
  ELSE IF AnyOccurs(INTENTS[k].keywords, lowered) THEN INTENTS[k].intent
  ELSE IntentFrom(k + 1, lowered)

\* infer_intent of a text given by its characters.
infer_intent_text(text) == IntentFrom(1, text_lower(text))

Rep(c, n) == [i \in 1..n |-> c]

\* re.search of the two patterns of _extract_gold. In the raw strings "\\d",
\* "\\s" and "\\b" are a backslash followed by the letter: the patterns match
\* a backslash and three to five letters d where a number was meant.
GoldPattern1(text) ==
  \E nd \in 3..5, ns \in 0..Len(text) :
    \E unit \in {<< "g", "o", "l", "d" >>, << "o", "u", "r", "o" >>, << "g" >>} :
      Occurs(<< "\\" >> \o Rep("d", nd) \o << "\\" >> \o Rep("s", ns) \o unit
             \o << "\\", "b" >>, text)

GoldPattern2(text) ==
  \E nd \in 3..5, ns \in 0..Len(text) :
    Occurs(<< "t", "e", "n", "h", "o" >> \o << "\\" >> \o Rep("s", ns) \o << "\\" >>
           \o Rep("d", nd) \o << "\\", "b" >>, text)

\* _extract_gold: None without a match; with a match int(match.group(1)) is
\* int of a string that starts with a backslash, which raises ValueError.
_extract_gold(text) ==
  IF GoldPattern1(text) \/ GoldPattern2(text)
  THEN [raises |-> TRUE, gold |-> NoGold]
  ELSE [raises |-> FALSE, gold |-> NoGold]

_extract_status(text) ==
  IF Occurs(<< "n", "a", " ", "f", "r", "e", "n", "t", "e" >>, text) \/ Occurs(<< "v", "a", "n", "t", "a", "g", "e", "m" >>, text)
  THEN "ahead"
  ELSE IF Occurs(<< "a", "t", "r", "a", "s" >>, text) \/ Occurs(<< "d", "e", "s", "v", "a", "n", "t", "a", "g", "e", "m" >>, text)
  THEN "behind"
  ELSE IF Occurs(<< "e", "m", "p", "a", "t", "a", "d", "o" >>, text) \/ Occurs(<< "e", "v", "e", "n" >>, text)
  THEN "even"
  ELSE IF Occurs(<< "a", "h", "e", "a", "d" >>, text) THEN "ahead"
  ELSE IF Occurs(<< "b", "e", "h", "i", "n", "d" >>, text) THEN "behind"
  ELSE None

_extract_phase(text) ==
  IF Occurs(<< "e", "a", "r", "l", "y" >>, text) \/ Occurs(<< "i", "n", "i", "c", "i", "o" >>, text)
     \/ Occurs(<< "c", "o", "m", "e", "c", "o" >>, text)
  THEN "early"
  ELSE IF Occurs(<< "m", "i", "d" >>, text) \/ Occurs(<< "m", "e", "i", "o" >>, text)
  THEN "mid"
  ELSE IF Occurs(<< "l", "a", "t", "e" >>, text) \/ Occurs(<< "f", "i", "m" >>, text)
  THEN "late"
  ELSE None

_extract_lane(text) ==
  IF Occurs(<< "t", "o", "p" >>, text) THEN "top"
  ELSE IF Occurs(<< "m", "i", "d" >>, text) \/ Occurs(<< "m", "e", "i", "o" >>, text)
  THEN "mid"
  ELSE IF Occurs(<< "b", "o", "t" >>, text) \/ Occurs(<< "b", "o", "t", "t", "o", "m" >>, text)
          \/ Occurs(<< "d", "r", "a", "g", "a", "o" >>, text)
  THEN "bot"
  ELSE IF Occurs(<< "j", "g" >>, text) \/ Occurs(<< "j", "u", "n", "g", "l", "e" >>, text)
          \/ Occurs(<< "s", "e", "l", "v", "a" >>, text)
  THEN "jungle"
  ELSE IF Occurs(<< "s", "u", "p" >>, text) \/ Occurs(<< "s", "u", "p", "p", "o", "r", "t" >>, text)
  THEN "support"
  ELSE None

Hint(key, value) == IF value = None THEN EmptyDict ELSE (key :> value)

\* extract_state_hints of a text that names no champion: gold, status,
\* game_phase and lane, each key only when its extractor matched.
extract_state_hints_text(text) ==
  LET lowered == _normalize(text)
      gold == _extract_gold(lowered)
  IN  IF gold.raises THEN [raises |-> TRUE, hints |-> EmptyDict]
      ELSE [raises |-> FALSE,
            hints |-> (IF gold.gold = NoGold THEN EmptyDict ELSE ("gold" :> gold.gold))
                      @@ Hint("status", _extract_status(lowered))
                      @@ Hint("game_phase", _extract_phase(lowered))
                      @@ Hint("lane", _extract_lane(lowered))]

\* SpecNlu: a text is put together from fragments; the functions of nlu.py
\* are applied to it, and the normalizer may be applied first.
Fragments ==
  { << "i", "t", "e", "m" >>,
    << "v", "s", " " >>,
    << "I", "T", "E", "M" >>,
    << "d", "r", "a", "g", "a~", "o" >>,
    << "n", "a", " ", "f", "r", "e", "n", "t", "e" >>,
    << "e", " ", "a", "g", "o", "r", "a" >>,
    << "e", "v", "e", "n" >>,
    << "t", "e", "n", "h", "o", " ", "2", "5", "0", "0", " ", "d", "e", " ", "o", "u",
       "r", "o", " ", "e", " ", "t", "o", " " >>,
    << "t", "e", "n", "h", "o", "\\", "\\", "d", "d", "d", "\\", "b" >>,
    << "a", "t", "r", "a'", "s" >> }
MaxFragments == 2

RECURSIVE TextsOf(_)
TextsOf(n) ==
  IF n = 0 THEN {<< >>}
  ELSE LET shorter == TextsOf(n - 1)
       IN  shorter \cup {t \o f : t \in shorter, f \in Fragments}
Texts == TextsOf(MaxFragments)

Analysis(of, value) == [of |-> of, value |-> value]

InitNlu ==
  /\ config = Config("memory", FALSE, FALSE)
  /\ sessions = << >>
  /\ used = {}
  /\ audio = NoAudio
  /\ database = EmptyDatabase
  /\ request = NoRequest
  /\ response = Response(0, "none", None, "OK", None, "none", FALSE)
  /\ handed = [s \in SessionIds |-> 0]
  /\ appended = [s \in SessionIds |-> << >>]
  /\ _tables_ready = TRUE
  /\ schema = TRUE
  /\ corrections = << >>
  /\ txn = << >>
  /\ clock = 0
  /\ expires = << >>
  /\ touched = << >>
  /\ utterance \in Texts
  /\ analysis = Analysis("none", None)

nlu_frame ==
  /\ UNCHANGED session_vars
  /\ UNCHANGED << _tables_ready, schema, corrections, txn, clock, expires, touched >>

InferIntent ==
  /\ analysis.of = "none"
  /\ analysis' = Analysis("infer_intent", infer_intent_text(utterance))
  /\ UNCHANGED utterance
  /\ nlu_frame

ExtractStateHints ==
  /\ analysis.of = "none"
  /\ analysis' = Analysis("extract_state_hints", extract_state_hints_text(utterance))
  /\ UNCHANGED utterance
  /\ nlu_frame

NormalizeText ==
  /\ analysis.of = "none"
  /\ utterance' = _normalize(utterance)
  /\ utterance' # utterance
  /\ UNCHANGED analysis
  /\ nlu_frame

NextNlu ==
  \/ InferIntent
  \/ ExtractStateHints
  \/ NormalizeText

SpecNlu == InitNlu /\ [][NextNlu]_vars

IntentLabels ==
  {"build", "all_in", "objective", "status", "macro", "follow_up", "matchup", "general"}

\* The labels of the table that have a keyword in the text, by table position.
LabelsIn(text) ==
  {k \in 1..Len(INTENTS) :
     \E j \in 1..Len(INTENTS[k].keywords) : Occurs(INTENTS[k].keywords[j], text)}

\* C23. infer_intent is total and priority-ordered: the result is one of
\* the eight labels, it is the earliest label of the table with a keyword that
\* occurs in the (lower-cased) text wherever the keywords stand, and general
\* exactly when no keyword occurs.
C23_PriorityOrder ==
  analysis.of = "infer_intent" =>
    LET found == LabelsIn(text_lower(utterance))
    IN  /\ analysis.value \in IntentLabels
        /\ found = {} <=> analysis.value = "general"
        /\ found # {} =>
             \E k \in found :
               /\ \A g \in found : k <= g
               /\ analysis.value = INTENTS[k].intent

\* A text whose later label stands first: "vs " before "item" is build.
C23_Witness ==
  /\ analysis.of = "infer_intent"
  /\ analysis.value = "build"
  /\ Occurs(<< "v", "s" >>, utterance)
  /\ Occurs(<< "i", "t", "e", "m" >>, utterance)
  /\ FirstAt(<< "v", "s" >>, utterance) < FirstAt(<< "i", "t", "e", "m" >>, utterance)

\* C27. Intent inference works on normalized text: infer_intent of a text is
\* infer_intent of the normalized text.
C27_IntentOfNormalized ==
  analysis.of = "infer_intent" =>
    analysis.value = infer_intent_text(_normalize(utterance))

Digits ==
  ("0" :> 0) @@ ("1" :> 1) @@ ("2" :> 2) @@ ("3" :> 3) @@ ("4" :> 4)
  @@ ("5" :> 5) @@ ("6" :> 6) @@ ("7" :> 7) @@ ("8" :> 8) @@ ("9" :> 9)

RECURSIVE Number(_)
Number(digits) ==
  IF digits = << >> THEN 0
  ELSE 10 * Number(SubSeq(digits, 1, Len(digits) - 1)) + Digits[digits[Len(digits)]]

\* The places of a text where "tenho N" stands, N a run of 3 to 5 digits:
\* << first digit, last digit >>.
TenhoNumbers(text) ==
  {<< i, j >> \in (1..Len(text)) \X (1..Len(text)) :
     /\ i > 6
     /\ SubSeq(text, i - 6, i - 1) = << "t", "e", "n", "h", "o", " " >>
     /\ j - i + 1 \in 3..5
     /\ \A k \in i..j : text[k] \in DOMAIN Digits
     /\ j = Len(text) \/ text[j + 1] \notin DOMAIN Digits}

\* C24. Gold extraction: for a text with "tenho N", N an integer of 3 to 5
\* digits, extract_state_hints returns gold = N.
C24_GoldExtracted ==
  analysis.of = "extract_state_hints" /\ TenhoNumbers(utterance) # {} =>
    /\ ~analysis.value.raises
    /\ "gold" \in DOMAIN analysis.value.hints
    /\ \E p \in TenhoNumbers(utterance) :
         analysis.value.hints["gold"] = Number(SubSeq(utterance, p[1], p[2]))

\* --------------------------------------------------------------------------
\* nlu.analyze_team_composition. The rows of the champions table that
\* game_data.get_champion_info reads are given by ChampionRows; a lookup finds
\* the rows of the names in `found` and returns None for every other name (no
\* POSTGRES_DSN, no such row, or a failed query).
Info(roles, damage, survivability) ==
  [roles |-> roles, damage |-> damage, survivability |-> survivability]

ChampionRows ==
  [zed |-> Info(<< "assassin" >>, 8, 3),
   ahri |-> Info(<< "mage", "assassin" >>, 7, 4),
   jinx |-> Info(<< "marksman" >>, 9, 2),
   garen |-> Info(<< "fighter", "tank" >>, 6, 8),
   soraka |-> Info(<< "support" >>, 3, 3),
   sett |-> Info(<< "fighter" >>, 7, 7)]

Healers == {"nami", "soraka", "sona", "yuumi", "senna", "seraphine"}

NoInfo == Info(<< >>, 0, 0)
get_champion_info(found, champion_name) ==
  IF champion_name \in found THEN ChampionRows[champion_name] ELSE NoInfo
HasInfo(found, champion_name) == champion_name \in found

AnyIn(wanted, roles) == \E i \in 1..Len(roles) : roles[i] \in wanted

EmptyAnalysis ==
  [damage_physical |-> 0, damage_magic |-> 0, has_healer |-> FALSE,
   has_tank |-> FALSE, has_assassin |-> FALSE, threats |-> << >>,
   total_survivability |-> 0, recommended_defenses |-> << >>]

\* One pass of "for enemy in enemies".
AnalyzeEnemy(result, enemy, found) ==
  IF ~HasInfo(found, enemy.champion) THEN result
  ELSE LET info == get_champion_info(found, enemy.champion)
           roles == info.roles
       IN  [damage_physical |->
              result.damage_physical
              + (IF AnyIn({"marksman", "fighter"}, roles) THEN info.damage ELSE 0),
            damage_magic |->
              result.damage_magic
              + (IF AnyIn({"mage", "assassin"}, roles) THEN info.damage ELSE 0),
            has_healer |->
              result.has_healer
              \/ (AnyIn({"support"}, roles) /\ enemy.champion \in Healers),
            has_tank |->
              result.has_tank \/ AnyIn({"tank"}, roles) \/ info.survivability >= 7,
            has_assassin |-> result.has_assassin \/ AnyIn({"assassin"}, roles),
            threats |->
              IF enemy.status = "ahead"
              THEN Append(result.threats,
                          [champion |-> enemy.champion, roles |-> roles,
                           damage_type |-> IF AnyIn({"mage"}, roles) THEN "magic"
                                           ELSE "physical"])
              ELSE result.threats,
            total_survivability |-> result.total_survivability + info.survivability,
            recommended_defenses |-> << >>]

RECURSIVE AnalyzeEnemies(_, _, _)
AnalyzeEnemies(result, enemies, found) ==
  IF enemies = << >> THEN result
  ELSE AnalyzeEnemies(AnalyzeEnemy(result, Head(enemies), found), Tail(enemies), found)

\* Recommended defenses that answer equal sums with armor alone.
recommended_defenses_armor_on_tie(result) ==
  (IF result.damage_magic > result.damage_physical
   THEN << "magic_resist" >> ELSE << "armor" >>)
  \o (IF result.has_healer THEN << "anti_heal" >> ELSE << >>)
  \o (IF result.has_tank THEN << "armor_pen" >> ELSE << >>)

\* The recommendations after the loop.
recommended_defenses(result) ==
  (IF result.damage_magic > result.damage_physical THEN << "magic_resist" >>
   ELSE IF result.damage_physical > result.damage_magic THEN << "armor" >>
   ELSE << "armor", "magic_resist" >>)
  \o (IF result.has_healer THEN << "anti_heal" >> ELSE << >>)
  \o (IF result.has_tank THEN << "armor_pen" >> ELSE << >>)

analyze_team_composition(enemies, found) ==
  LET looped == AnalyzeEnemies(EmptyAnalysis, enemies, found)
  IN  [looped EXCEPT !.recommended_defenses = recommended_defenses(looped)]

\* SpecTeam: analyze_team_composition applied to enemy lists.
Enemy(champion, status) == [champion |-> champion, status |-> status]
TeamChampions == DOMAIN ChampionRows
TeamStatuses == {"ahead", "even"}
MaxEnemies == 2
Lookups == {TeamChampions, TeamChampions \ {"zed"}, {}}

RECURSIVE EnemyLists(_)
EnemyLists(n) ==
  IF n = 0 THEN {<< >>}
  ELSE LET shorter == EnemyLists(n - 1)
       IN  shorter \cup {Append(l, Enemy(c, st)) :
                          l \in shorter, c \in TeamChampions, st \in TeamStatuses}

TeamInput(enemies, found) == [enemies |-> enemies, found |-> found]

InitTeam ==
  /\ config = Config("memory", TRUE, TRUE)
  /\ sessions = << >>
  /\ used = {}
  /\ audio = NoAudio
  /\ database = EmptyDatabase
  /\ request = NoRequest
  /\ response = Response(0, "none", None, "OK", None, "none", FALSE)
  /\ handed = [s \in SessionIds |-> 0]
  /\ appended = [s \in SessionIds |-> << >>]
  /\ _tables_ready = TRUE
  /\ schema = TRUE
  /\ corrections = << >>
  /\ txn = << >>
  /\ clock = 0
  /\ expires = << >>
  /\ touched = << >>
  /\ utterance \in {TeamInput(l, f) : l \in EnemyLists(MaxEnemies), f \in Lookups}
  /\ analysis = Analysis("none", None)

AnalyzeTeam ==
  /\ analysis.of = "none"
  /\ analysis' = Analysis("analyze_team_composition",
                          analyze_team_composition(utterance.enemies, utterance.found))
  /\ UNCHANGED utterance
  /\ nlu_frame

NextTeam == AnalyzeTeam

SpecTeam == InitTeam /\ [][NextTeam]_vars

Analyzed == analysis.of = "analyze_team_composition"

\* C28. The threats are all and only the enemies with status ahead, in input
\* order, whatever the champion lookup returns.
C28_ThreatsAreAhead ==
  Analyzed =>
    LET ahead == SelectSeq(utterance.enemies, LAMBDA e : e.status = "ahead")
        threats == analysis.value.threats
    IN  /\ Len(threats) = Len(ahead)
        /\ \A i \in 1..Len(ahead) : threats[i].champion = ahead[i].champion

\* The enemies of the input the lookup has a row for.
Looked == SelectSeq(utterance.enemies, LAMBDA e : e.champion \in utterance.found)

RECURSIVE SumDamage(_, _)
SumDamage(enemies, wanted) ==
  IF enemies = << >> THEN 0
  ELSE (IF AnyIn(wanted, ChampionRows[Head(enemies).champion].roles)
        THEN ChampionRows[Head(enemies).champion].damage ELSE 0)
       + SumDamage(Tail(enemies), wanted)

\* C29. The recommendation list: magic_resist, armor or both by the
\* comparison of the magic and the physical sum, then anti_heal iff a healer
\* is present, then armor_pen iff a tank is present; no duplicates.
C29_Recommendations ==
  Analyzed =>
    LET magic == SumDamage(Looked, {"mage", "assassin"})
        physical == SumDamage(Looked, {"marksman", "fighter"})
        healer == \E i \in 1..Len(Looked) : Looked[i].champion \in Healers
        tank == \E i \in 1..Len(Looked) :
                  \/ AnyIn({"tank"}, ChampionRows[Looked[i].champion].roles)
                  \/ ChampionRows[Looked[i].champion].survivability >= 7
        list == analysis.value.recommended_defenses
        first == IF magic > physical THEN << "magic_resist" >>
                 ELSE IF physical > magic THEN << "armor" >>
                 ELSE << "armor", "magic_resist" >>
    IN  /\ list = first \o SelectSeq(<< "anti_heal", "armor_pen" >>,
                                     LAMBDA d : \/ d = "anti_heal" /\ healer
                                                \/ d = "armor_pen" /\ tank)
        /\ \A i, j \in 1..Len(list) : list[i] = list[j] => i = j

\* An input with equal non-zero sums, a healer and a tank.
C29_Witness ==
  /\ Analyzed
  /\ analysis.value.damage_magic = analysis.value.damage_physical
  /\ analysis.value.damage_magic > 0
  /\ analysis.value.recommended_defenses = << "armor", "magic_resist", "armor_pen" >>

\* -------------------------------------------------------------- SpecMerge
\* Turns whose extraction carries status, game_phase, enemies and enemy, with
\* and without a client_state_hint, on one session under both stores; the
\* utterance of the last processed turn is kept in `utterance`.
U_contra == Utterance("contra um zed", FALSE, "matchup",
                      ("enemies" :> << EnemyDict("zed", "even", TRUE) >>)
                        @@ ("enemy" :> "zed"),
                      NoItemHints)
U_late == Utterance("to atras no late game", FALSE, "status",
                    ("status" :> "behind") @@ ("game_phase" :> "late"), NoItemHints)

MergeUtterances == {U_oi, U_frente, U_contra, U_late}
MergeHints == {EmptyDict, ("status" :> None) @@ ("gold" :> 2500)}
MergeContexts == {InitialContext("yasuo", "mid", "ahri")}
MergeIds == {"s1"}
MaxMergeRequests == 4

OpenMerge == response.n < MaxMergeRequests

merge_frame ==
  UNCHANGED << _tables_ready, schema, corrections, txn, clock, expires, touched, analysis >>

NextMerge ==
  \/ \E sid \in MergeIds, c \in MergeContexts :
       OpenMerge /\ UNCHANGED aux_vars /\ SessionStart(sid, c, "pt-BR")
  \/ \E sid \in MergeIds, u \in MergeUtterances \cup {U_blank}, h \in MergeHints :
       /\ OpenMerge
       /\ Turn(sid, u, h, << >>, "exception", FALSE)
       /\ utterance' = u
       /\ merge_frame
  \/ \E sid \in MergeIds : OpenMerge /\ UNCHANGED aux_vars /\ AudioRead(sid)
  \/ \E o \in AudioOutcomes, u \in MergeUtterances :
       /\ OpenMerge
       /\ AudioResume(o, u, << >>, "exception", FALSE)
       /\ utterance' = IF o = "text" THEN u ELSE utterance
       /\ merge_frame
  \/ \E sid \in MergeIds :
       OpenMerge /\ UNCHANGED aux_vars /\ SessionEnd(sid, NoFeedback, FALSE)

SpecMerge == InitHistory /\ [][NextMerge]_vars

ExtractedKeys == {"gold", "status", "game_phase", "enemies", "enemy"}

\* A step that ran _process_turn on an utterance.
Processed ==
  /\ Completed
  /\ \/ response'.op = "turn"
     \/ response'.op = "audio" /\ request' # NoRequest

\* C25 as stated: a key the utterance yields no match for has after the turn
\* the value it had before the turn.
C25_AbsentKeysPreserved ==
  [][Processed =>
       \A sid \in Live \cap DOMAIN sessions' : \A k \in ExtractedKeys :
         k \notin DOMAIN extract_state_hints(utterance')
           => sessions'[sid].state[k] = sessions[sid].state[k]]_vars

\* C25. A key that neither the utterance's extraction nor the turn's
\* client_state_hint carries has after the turn the value it had before.
C25_AbsentKeysPreservedWithoutHint ==
  [][Processed =>
       \A sid \in Live \cap DOMAIN sessions' : \A k \in ExtractedKeys :
         (k \notin DOMAIN extract_state_hints(utterance') /\ k \notin DOMAIN request'.hint)
           => sessions'[sid].state[k] = sessions[sid].state[k]]_vars

\* A turn without a match for status or game_phase answered on a session that
\* still holds the values an earlier turn extracted.
C25_Witness ==
  /\ response.op = "turn"
  /\ response.code = "OK"
  /\ request.hint = EmptyDict
  /\ DOMAIN extract_state_hints(utterance) \cap {"status", "game_phase"} = {}
  /\ response.sid \in Live
  /\ sessions[response.sid].state.status = "behind"
  /\ sessions[response.sid].state.game_phase = "late"

ContextOf(state) ==
  [champion |-> state.champion, lane |-> state.lane, enemy |-> state.enemy,
   game_phase |-> state.game_phase, status |-> state.status, gold |-> state.gold]

\* C26. Turn records are immutable: in every step a live session's history
\* is left as it is or gains one entry at its end, losing entries only from
\* the front and only when full; the new entry's context is the session's
\* champion, lane, enemy, game_phase, status and gold after the merge. A
\* history is otherwise dropped only with its session, by session end.
C26_RecordsImmutable ==
  [][/\ \A sid \in Live \cap DOMAIN sessions' :
          LET old == sessions[sid].history
              new == sessions'[sid].history
              evicted == Len(old) + 1 - Len(new)
          IN  \/ new = old
              \/ /\ Len(new) >= 1
                 /\ evicted >= 0
                 /\ evicted > 0 => Len(new) = MAX_HISTORY
                 /\ SubSeq(new, 1, Len(new) - 1) = SubSeq(old, evicted + 1, Len(old))
                 /\ new[Len(new)].context = ContextOf(sessions'[sid].state)
                 /\ Processed /\ response'.sid = sid /\ response'.code = "OK"
     /\ \A sid \in Live \ DOMAIN sessions' :
          Completed /\ response'.op = "end" /\ response'.sid = sid]_vars

\* A full history that kept an entry whose context differs from the state the
\* session has now.
C26_Witness ==
  \E sid \in Live :
    /\ Len(appended[sid]) > MAX_HISTORY
    /\ Len(sessions[sid].history) = MAX_HISTORY
    /\ sessions[sid].history[1].context # ContextOf(sessions[sid].state)
    /\ sessions[sid].history[1] = appended[sid][Len(appended[sid]) - MAX_HISTORY + 1]

\* -------------------------------------------------------------- SpecSchema
\* The module flag db._tables_ready against the tables committed in the
\* database (`schema`). A database call fails nowhere ("none"), before the
\* flag is touched ("before": connect or _ensure_tables raises) or after it
\* ("after": a later statement of the same transaction raises). Leaving the
\* `with psycopg.connect(...)` block by an exception rolls the transaction
\* back, the table creation included.
FailPoints == {"none", "before", "after"}

\* A statement on missing tables raises.
Raises(ready, committed, at) == at # "none" \/ (ready /\ ~committed)

\* persist_session_end: the flag is set right after _ensure_tables, the
\* commit comes at the end of the block.
persist_session_end_ready(ready, committed, at) ==
  IF ~ready /\ at # "before" THEN TRUE ELSE ready
persist_session_end_schema(ready, committed, at) ==
  IF ~ready /\ at = "none" THEN TRUE ELSE committed

\* retrieve_advice and retrieve_corrections: _ensure_tables, commit, then
\* the flag.
retrieve_ready(ready, committed, at) ==
  IF ~ready /\ at # "before" THEN TRUE ELSE ready
retrieve_schema(ready, committed, at) ==
  IF ~ready /\ at # "before" THEN TRUE ELSE committed
\* Whether the select of a retrieve runs, and whether its table is missing.
Query(ready, committed, at) ==
  [ran |-> at # "before",
   missing |-> at # "before" /\ ~retrieve_schema(ready, committed, at)]

SchemaUtterances == {U_oi, U_item, U_blank}
SchemaIds == {"s1", "s2"}
MaxSchemaRequests == 3
OpenSchema == response.n < MaxSchemaRequests

schema_frame == UNCHANGED << corrections, txn, clock, expires, touched, utterance >>

InitSchema ==
  /\ config = Config("memory", FALSE, TRUE)
  /\ sessions = << >>
  /\ used = {}
  /\ audio = NoAudio
  /\ database = EmptyDatabase
  /\ request = NoRequest
  /\ response = Response(0, "none", None, "OK", None, "none", FALSE)
  /\ handed = [s \in SessionIds |-> 0]
  /\ appended = [s \in SessionIds |-> << >>]
  /\ _tables_ready = FALSE
  /\ schema \in BOOLEAN
  /\ corrections = << >>
  /\ txn = << >>
  /\ clock = 0
  /\ expires = << >>
  /\ touched = << >>
  /\ utterance = None
  /\ analysis = Analysis("none", None)

\* POST /turn: _process_turn calls db.retrieve_advice once the merge is done.
TurnSchema(sid, u, at) ==
  LET retrieves == sid \in DOMAIN sessions /\ ~u.blank
      query == Query(_tables_ready, schema, at)
  IN  /\ Turn(sid, u, EmptyDict, << >>, "exception", FALSE)
      /\ IF retrieves
         THEN /\ _tables_ready' = retrieve_ready(_tables_ready, schema, at)
              /\ schema' = retrieve_schema(_tables_ready, schema, at)
              /\ analysis' = Analysis("retrieve_advice", query)
         ELSE UNCHANGED << _tables_ready, schema, analysis >>
      /\ schema_frame

\* llm._build_prompt calls db.retrieve_corrections.
RetrieveCorrections(at) ==
  /\ _tables_ready' = retrieve_ready(_tables_ready, schema, at)
  /\ schema' = retrieve_schema(_tables_ready, schema, at)
  /\ analysis' = Analysis("retrieve_corrections", Query(_tables_ready, schema, at))
  /\ UNCHANGED session_vars
  /\ schema_frame

\* POST /session/end: db.persist_session_end of the ended session.
EndSchema(sid, fb, at) ==
  LET persists == sid \in DOMAIN sessions
  IN  /\ SessionEnd(sid, fb, Raises(_tables_ready, schema, at))
      /\ IF persists
         THEN /\ _tables_ready' = persist_session_end_ready(_tables_ready, schema, at)
              /\ schema' = persist_session_end_schema(_tables_ready, schema, at)
              /\ analysis' = Analysis("persist_session_end", [ran |-> FALSE, missing |-> FALSE])
         ELSE UNCHANGED << _tables_ready, schema, analysis >>
      /\ schema_frame

NextSchema ==
  \/ \E sid \in SchemaIds, c \in MergeContexts :
       OpenSchema /\ UNCHANGED aux_vars /\ SessionStart(sid, c, "pt-BR")
  \/ \E sid \in SchemaIds, u \in SchemaUtterances, at \in FailPoints :
       OpenSchema /\ TurnSchema(sid, u, at)
  \/ \E at \in FailPoints : OpenSchema /\ RetrieveCorrections(at)
  \/ \E sid \in SchemaIds, fb \in {NoFeedback, "good"}, at \in FailPoints :
       OpenSchema /\ EndSchema(sid, fb, at)

SpecSchema == InitSchema /\ [][NextSchema]_vars

\* C30. The flag is sound: _tables_ready implies that the table creation is
\* committed, and no advice or corrections query runs on missing tables.
C30_FlagSound ==
  /\ _tables_ready => schema
  /\ analysis.of \in {"retrieve_advice", "retrieve_corrections"}
       => ~analysis.value.missing

====
